---- MODULE Spec2Model ----
(***************************************************************************)
(* Model of the Discord data-export parser (parser/discordExportParser.js, *)
(* kept in src/unnamed/part_000): parseZip, parseFileList,                 *)
(* parseDirectoryHandle and buildSummary, with getLocalDateKey of          *)
(* utils/exportData.js.                                                    *)
(*                                                                         *)
(* JavaScript values are tagged records: undefined, null, booleans,        *)
(* strings, numbers, objects (a function from property names to values),   *)
(* arrays (a sequence of values) and built-in functions.  Numbers are      *)
(* integers.  Strings are TLA+ strings of ASCII characters (U+0000 to       *)
(* U+007F); a character of a string s is SubSeq(s, i, i).  A Date is its   *)
(* time value, held as the day number since the Unix epoch and the         *)
(* milliseconds into that day; an invalid Date is the value NaNDate.  The  *)
(* host the program runs on is its local time zone, a fixed offset from    *)
(* UTC, and the build of its JavaScript engine.                            *)
(***************************************************************************)
EXTENDS Integers, Sequences, FiniteSets, TLC

VARIABLES
  mode,          \* the entry point: parseZip, parseFileList, parseDirectoryHandle
  files,         \* the files of the input, in the order the adapter lists them
  host,          \* the local time zone and the engine build the program runs on
  pc,            \* where the parse stands
  idx,           \* the loop counter of the metadata and message passes (from 1)
  metaFiles,     \* the metadata candidates
  messageFiles,  \* the message candidates
  result,        \* the accumulator of the parse
  progress,      \* the percentages passed to onProgress so far
  status,        \* "running", "returned" or "threw"
  cause,         \* what made the parse throw
  out,           \* the Summary returned
  indexNames,    \* the names the global index file gave, by channel ID
  twin,          \* the same parse, called with a well-behaved onProgress
  callback,      \* the onProgress the caller passes: "good", "throws", "absent"
  ui,            \* what the load screen waits for ("off": no screen)
  loading,       \* App: the loading flag
  error,         \* App: the error shown, or null
  appData,       \* App: data, the Summary shown, or null
  before,        \* loading, error and data when the last pick was started
  drop,          \* the dropped directory tree and its readDirectoryEntry calls
  unlocked,      \* App: the password was given
  earlier,       \* the parses that go on beside the one under way
  started        \* the number of loads started

\* the state of the application around a parse
shell == <<callback, ui, loading, error, appData, before, drop, unlocked,
           earlier, started>>

vars == <<mode, files, host, pc, idx, metaFiles, messageFiles, result,
          progress, status, cause, out, indexNames, twin, shell>>

----------------------------------------------------------------------------
(* JavaScript values                                                       *)

Undef == [t |-> "undef"]
Null == [t |-> "null"]
Bool(b) == [t |-> "bool", b |-> b]
Str(s) == [t |-> "str", s |-> s]
Num(n) == [t |-> "num", n |-> n]
Obj(f) == [t |-> "obj", f |-> f]
Arr(a) == [t |-> "arr", a |-> a]
NoProps == [k \in {} |-> Undef]

\* a built-in function, known by its name: what a plain object inherits
\* under "constructor", "toString" and the like
Fn(name) == [t |-> "fn", name |-> name]

\* the object Object.prototype itself, which a plain object gives under
\* "__proto__"
ObjectPrototype == [t |-> "objproto"]

\* v is null or undefined: the left operand of ?? is replaced exactly then
Nullish(v) == v.t \in {"undef", "null"}

\* a ?? b
Coalesce(a, b) == IF Nullish(a) THEN b ELSE a

\* ToBoolean(v)
Truthy(v) ==
  CASE v.t = "str" -> v.s # ""
    [] v.t = "num" -> v.n # 0
    [] v.t = "bool" -> v.b
    [] v.t \in {"obj", "arr", "fn", "objproto"} -> TRUE
    [] OTHER -> FALSE

\* typeof v === 'object' (true of null, objects and arrays, not of functions)
TypeofObject(v) == v.t \in {"null", "obj", "arr", "objproto"}

\* k in v, for v an object or an array and k one of the property names the
\* parser tests, none of which an object or an array inherits
HasKey(v, k) == v.t = "obj" /\ k \in DOMAIN v.f

\* v.k or v[k] for one of the property names the parser reads from parsed
\* data and from metadata (ID, Timestamp, name, channelId, ...): no string,
\* number, array, function or prototype has a property of these names.  The
\* caller guards against nullish v, on which JavaScript throws a TypeError
Get(v, k) == IF v.t = "obj" /\ k \in DOMAIN v.f THEN v.f[k] ELSE Undef

\* reading a property of v throws a TypeError
GetThrows(v) == Nullish(v)

Digits == "0123456789"

RECURSIVE NatToStr(_)
NatToStr(n) ==
  IF n < 10 THEN SubSeq(Digits, n + 1, n + 1)
  ELSE NatToStr(n \div 10) \o SubSeq(Digits, (n % 10) + 1, (n % 10) + 1)

\* String(n) for an integer n
NumToStr(n) == IF n < 0 THEN "-" \o NatToStr(0 - n) ELSE NatToStr(n)

\* String(v), a template literal and the conversion of a property key throw
\* a TypeError: v is an object with an own property "toString" (parsed from
\* JSON, so never callable; the inherited valueOf returns no primitive), or
\* an array with such an element, which Array.prototype.join converts
RECURSIVE ToStrThrows(_)
ToStrThrows(v) ==
  CASE v.t = "obj" -> "toString" \in DOMAIN v.f
    [] v.t = "arr" -> \E i \in 1..Len(v.a) :
                         ~Nullish(v.a[i]) /\ ToStrThrows(v.a[i])
    [] OTHER -> FALSE

\* what String(v) gives in place of a string when it throws
TypeError == [t |-> "throws", error |-> "TypeError"]

RECURSIVE ToStr(_)
RECURSIVE JoinArr(_, _)
\* Array.prototype.join(','), as String(array) calls it, from element i on
JoinArr(a, i) ==
  IF i > Len(a) THEN ""
  ELSE (IF Nullish(a[i]) THEN "" ELSE ToStr(a[i]))
       \o (IF i < Len(a) THEN "," ELSE "") \o JoinArr(a, i + 1)

\* String(v), also the property key an object is indexed with
ToStr(v) ==
  IF ToStrThrows(v) THEN TypeError
  ELSE CASE v.t = "str" -> v.s
         [] v.t = "num" -> NumToStr(v.n)
         [] v.t = "bool" -> IF v.b THEN "true" ELSE "false"
         [] v.t = "undef" -> "undefined"
         [] v.t = "null" -> "null"
         [] v.t = "arr" -> JoinArr(v.a, 1)
         [] v.t = "fn" -> "function " \o v.name \o "() { [native code] }"
         [] OTHER -> "[object Object]"

----------------------------------------------------------------------------
(* Strings.  Text is ASCII (U+0000 to U+007F) without the grave accent      *)
(* U+0060, which no TLA+ string holds; the characters of Unicode above     *)
(* U+007F, their white space and their letters, are not modelled.          *)

CharAt(s, i) == SubSeq(s, i, i)

IsDigit(c) == c \in {"0", "1", "2", "3", "4", "5", "6", "7", "8", "9"}

\* \s of a regular expression and the white space String.prototype.trim
\* removes, as far as it is ASCII: tab, line feed, vertical tab, form feed,
\* carriage return and space
IsSpace(c) == c \in {" ", "\t", "\n", "", "\f", "\r"}

Upper == "ABCDEFGHIJKLMNOPQRSTUVWXYZ"
Lower == "abcdefghijklmnopqrstuvwxyz"
UpperChars == {CharAt(Upper, i) : i \in 1..Len(Upper)}
LowerChars == {CharAt(Lower, i) : i \in 1..Len(Lower)}

\* the small letter of each capital letter
LowerOf ==
  [c \in UpperChars |->
     CharAt(Lower, CHOOSE i \in 1..Len(Upper) : CharAt(Upper, i) = c)]

\* toLowerCase of one character
LowerChar(c) == IF c \in DOMAIN LowerOf THEN LowerOf[c] ELSE c

RECURSIVE ToLowerCase(_)
ToLowerCase(s) ==
  IF s = "" THEN "" ELSE LowerChar(CharAt(s, 1)) \o ToLowerCase(Tail(s))

RECURSIVE TrimStart(_)
TrimStart(s) ==
  IF s # "" /\ IsSpace(CharAt(s, 1)) THEN TrimStart(Tail(s)) ELSE s

RECURSIVE TrimEnd(_)
TrimEnd(s) ==
  IF s # "" /\ IsSpace(CharAt(s, Len(s)))
  THEN TrimEnd(SubSeq(s, 1, Len(s) - 1)) ELSE s

Trim(s) == TrimEnd(TrimStart(s))

AllDigits(s) == \A i \in 1..Len(s) : IsDigit(CharAt(s, i))

StartsWith(s, p) == Len(s) >= Len(p) /\ SubSeq(s, 1, Len(p)) = p

EndsWith(s, p) ==
  Len(s) >= Len(p) /\ SubSeq(s, Len(s) - Len(p) + 1, Len(s)) = p

\* s.split(sep) for a one-character separator: the pieces, empty ones
\* included.  start is where the piece being read begins.
RECURSIVE SplitFrom(_, _, _, _)
SplitFrom(s, sep, start, i) ==
  IF i > Len(s) THEN <<SubSeq(s, start, Len(s))>>
  ELSE IF CharAt(s, i) = sep
       THEN <<SubSeq(s, start, i - 1)>> \o SplitFrom(s, sep, i + 1, i + 1)
  ELSE SplitFrom(s, sep, start, i + 1)

Split(s, sep) == SplitFrom(s, sep, 1, 1)

\* parts.join(sep)
RECURSIVE Join(_, _)
Join(parts, sep) ==
  IF Len(parts) = 0 THEN ""
  ELSE IF Len(parts) = 1 THEN parts[1]
  ELSE parts[1] \o sep \o Join(Tail(parts), sep)

\* channelPath.split('/').pop()
LastSegment(p) == LET parts == Split(p, "/") IN parts[Len(parts)]

----------------------------------------------------------------------------
(* Record normalizer                                                       *)

TZ_OFFSET_HOURS == -5
TZ_OFFSET_MS == TZ_OFFSET_HOURS * 60 * 60 * 1000

MsPerDay == 24 * 60 * 60 * 1000

\* the largest day number of a time value: 8.64e15 ms are 100,000,000 days
MaxDay == 100 * 1000 * 1000

\* the time value of an invalid Date
NaNDate == [t |-> "date", valid |-> FALSE]

\* TimeClip: the Date of the time value day * MsPerDay + ms, invalid when
\* that lies outside -8.64e15 .. 8.64e15
TimeClip(day, ms) ==
  LET d == day + ms \div MsPerDay
      r == ms % MsPerDay
  IN IF d < 0 - MaxDay \/ d > MaxDay \/ (d = MaxDay /\ r > 0) THEN NaNDate
     ELSE [t |-> "date", valid |-> TRUE, day |-> d, ms |-> r]

\* the Date m minutes after the epoch
DateAt(m) == TimeClip(m \div 1440, (m % 1440) * 60000)

\* a < b and a <= b for the time values of two valid Dates
TimeLess(a, b) == a.day < b.day \/ (a.day = b.day /\ a.ms < b.ms)
TimeLeq(a, b) == ~TimeLess(b, a)

\* Number(s) for a string of decimal digits
RECURSIVE StrToNat(_)
StrToNat(s) ==
  IF s = "" THEN 0
  ELSE 10 * StrToNat(SubSeq(s, 1, Len(s) - 1))
       + (CHOOSE d \in 0..9 : CharAt(Digits, d + 1) = CharAt(s, Len(s)))

\* the day number (days since 1970-01-01) of a proleptic Gregorian date;
\* a day past the end of its month counts on into the next, as MakeDay has it
DaysFromCivil(y, m, d) ==
  LET yy == IF m <= 2 THEN y - 1 ELSE y
      era == yy \div 400
      yoe == yy - era * 400
      mp == IF m > 2 THEN m - 3 ELSE m + 9
      doy == (153 * mp + 2) \div 5 + d - 1
      doe == yoe * 365 + yoe \div 4 - yoe \div 100 + doy
  IN era * 146097 + doe - 719468

\* the Gregorian date <<year, month, day>> of a day number
CivilFromDays(z) ==
  LET zz == z + 719468
      era == zz \div 146097
      doe == zz - era * 146097
      yoe == (doe - doe \div 1460 + doe \div 36524 - doe \div 146096) \div 365
      doy == doe - (365 * yoe + yoe \div 4 - yoe \div 100)
      mp == (5 * doy + 2) \div 153
      d == doy - (153 * mp + 2) \div 5 + 1
      m == IF mp < 10 THEN mp + 3 ELSE mp - 9
      y == yoe + era * 400
  IN <<IF m <= 2 THEN y + 1 ELSE y, m, d>>

(* new Date(string) is Date.parse of V8, the engine of Chrome and Node:    *)
(* the string is cut into tokens, the ES5 form                             *)
(* [+-YY]YYYY[-MM[-DD]][THH:mm[:ss[.sss]][Z|+-HH:mm]] is tried, and what   *)
(* that leaves goes to the legacy parser, which takes numbers, month       *)
(* names, am/pm, zone names and signs in any order.                        *)

\* the characters from 'A' on of the modelled text, the last being U+007F
FromA == Upper \o "[\\]^_" \o Lower \o "{|}~"

\* IsAsciiAlphaOrAbove: a character a word of a date string is made of,
\* 'A' or above and no white space
IsWordPart(c) == c \in {CharAt(FromA, i) : i \in 1..Len(FromA)}

MonthNames ==
  <<"jan", "feb", "mar", "apr", "may", "jun",
    "jul", "aug", "sep", "oct", "nov", "dec">>

\* the hours of the zone names the parser knows
ZoneNames ==
  [z \in {"ut", "utc", "z", "gmt"} |-> 0]
  @@ ("cdt" :> -5) @@ ("cst" :> -6) @@ ("edt" :> -4) @@ ("est" :> -5)
  @@ ("mdt" :> -6) @@ ("mst" :> -7) @@ ("pdt" :> -7) @@ ("pst" :> -8)

\* KeywordTable::Lookup of a word: its first three letters, in lower case,
\* name a month, or the whole word, of at most three letters, is am, pm, a
\* zone name or the separator t; any other word is a word of no type
Keyword(word) ==
  LET w == ToLowerCase(word)
      pre == SubSeq(w, 1, IF Len(w) < 3 THEN Len(w) ELSE 3)
  IN IF \E m \in 1..12 : MonthNames[m] = pre
     THEN [k |-> "word", type |-> "month", len |-> Len(word),
           value |-> CHOOSE m \in 1..12 : MonthNames[m] = pre]
     ELSE IF w \in {"am", "pm"}
     THEN [k |-> "word", type |-> "ampm", len |-> Len(word),
           value |-> IF w = "am" THEN 0 ELSE 12]
     ELSE IF w \in DOMAIN ZoneNames
     THEN [k |-> "word", type |-> "zone", len |-> Len(word),
           value |-> ZoneNames[w]]
     ELSE IF w = "t"
     THEN [k |-> "word", type |-> "T", len |-> 1, value |-> 0]
     ELSE [k |-> "word", type |-> "none", len |-> Len(word), value |-> 0]

\* the last position of the run of characters satisfying Is(_) that begins
\* at position i of s
RECURSIVE RunEnd(_, _, _)
RunEnd(Is(_), s, i) ==
  IF i < Len(s) /\ Is(CharAt(s, i + 1)) THEN RunEnd(Is, s, i + 1) ELSE i

\* ReadUnsignedNumeral: the value of a run of digits, of which the leading
\* zeros are skipped and the first nine digits after them are read
RECURSIVE SkipZeros(_)
SkipZeros(s) == IF s # "" /\ CharAt(s, 1) = "0" THEN SkipZeros(Tail(s)) ELSE s

ReadUnsignedNumeral(digits) ==
  LET d == SkipZeros(digits)
  IN StrToNat(SubSeq(d, 1, IF Len(d) < 9 THEN Len(d) ELSE 9))

\* SkipParentheses: the position after the parenthesised text that begins at
\* i, or after the end of the string when it is not closed
RECURSIVE ParenEnd(_, _, _)
ParenEnd(s, i, balance) ==
  LET b == IF CharAt(s, i) = ")" THEN balance - 1
           ELSE IF CharAt(s, i) = "(" THEN balance + 1 ELSE balance
  IN IF b > 0 /\ i < Len(s) THEN ParenEnd(s, i + 1, b) ELSE i + 1

\* DateStringTokenizer: the tokens of s from position i on
RECURSIVE DateTokens(_, _)
DateTokens(s, i) ==
  IF i > Len(s) THEN <<>>
  ELSE LET c == CharAt(s, i)
       IN IF IsDigit(c)
          THEN LET e == RunEnd(IsDigit, s, i)
               IN <<[k |-> "num", n |-> ReadUnsignedNumeral(SubSeq(s, i, e)),
                     len |-> e - i + 1]>> \o DateTokens(s, e + 1)
          ELSE IF c \in {":", "-", "+", ".", ")"}
          THEN <<[k |-> "sym", c |-> c]>> \o DateTokens(s, i + 1)
          ELSE IF IsWordPart(c)
          THEN LET e == RunEnd(IsWordPart, s, i)
               IN <<Keyword(SubSeq(s, i, e))>> \o DateTokens(s, e + 1)
          ELSE IF IsSpace(c)
          THEN <<[k |-> "ws"]>> \o DateTokens(s, i + 1)
          ELSE IF c = "("
          THEN <<[k |-> "unknown"]>> \o DateTokens(s, ParenEnd(s, i, 0))
          ELSE <<[k |-> "unknown"]>> \o DateTokens(s, i + 1)

\* the token at position p of the tokens T, the end of input past the last
Peek(T, p) == IF p <= Len(T) THEN T[p] ELSE [k |-> "end"]

IsNumber(tok) == tok.k = "num"
IsFixedNumber(tok, length) == tok.k = "num" /\ tok.len = length
IsSymbol(tok, c) == tok.k = "sym" /\ tok.c = c
IsAsciiSign(tok) == tok.k = "sym" /\ tok.c \in {"+", "-"}
IsKeywordType(tok, type) == tok.k = "word" /\ tok.type = type
IsKeywordZ(tok) == IsKeywordType(tok, "zone") /\ tok.len = 1

IsMonth(n) == n \in 1..12
IsDay(n) == n \in 1..31
IsHour(n) == n \in 0..23
IsMinute(n) == n \in 0..59
IsSecond(n) == n \in 0..59

\* ReadMilliseconds: the fraction of a second a number token stands for
\* after a '.', cut to whole milliseconds
ReadMilliseconds(tok) ==
  LET length == IF tok.len > 9 THEN 9 ELSE tok.len
      Pow10 == <<10, 100, 1000, 10000, 100000, 1000000>>
  IN IF tok.len = 1 THEN tok.n * 100
     ELSE IF tok.len = 2 THEN tok.n * 10
     ELSE IF tok.len > 3 THEN tok.n \div Pow10[length - 3]
     ELSE tok.n

\* the composers before anything is read: the numbers of the day, a named
\* month (0: none), whether the day is an ISO date, the numbers of the time,
\* the hours am or pm adds (-1: neither), the sign (0: none), hour and minute
\* of the zone (-1: none), whether a number has been read, whether the
\* string is still taken for a date
NoDate ==
  [day |-> <<>>, named |-> 0, iso |-> FALSE, time |-> <<>>, hoff |-> -1,
   sign |-> 0, hour |-> -1, minute |-> -1, read |-> FALSE, ok |-> TRUE]

\* ParseES5DateTime, the date: the year, month and day of the ES5 form, and
\* where this goes on, to the ES5 time at token p or to the legacy parser
\* with the tokens rest
ES5Date(T) ==
  LET Legacy(day, rest) == [to |-> "legacy", day |-> day, rest |-> rest]
      Time(day, p) == [to |-> "time", day |-> day, p |-> p]
      MonthDay(day, p) ==
        IF ~IsSymbol(Peek(T, p), "-") THEN Time(day, p)
        ELSE IF ~IsFixedNumber(Peek(T, p + 1), 2) \/ ~IsMonth(Peek(T, p + 1).n)
        THEN Legacy(day, SubSeq(T, p + 1, Len(T)))
        ELSE LET d2 == Append(day, T[p + 1].n)
             IN IF ~IsSymbol(Peek(T, p + 2), "-") THEN Time(d2, p + 2)
                ELSE IF ~IsFixedNumber(Peek(T, p + 3), 2)
                        \/ ~IsDay(Peek(T, p + 3).n)
                THEN Legacy(d2, SubSeq(T, p + 3, Len(T)))
                ELSE Time(Append(d2, T[p + 3].n), p + 4)
  IN IF IsAsciiSign(Peek(T, 1))
     THEN IF ~IsFixedNumber(Peek(T, 2), 6) THEN Legacy(<<>>, T)
          ELSE IF T[1].c = "-" /\ T[2].n = 0
          THEN Legacy(<<>>, <<T[1]>> \o SubSeq(T, 3, Len(T)))
          ELSE MonthDay(<<(IF T[1].c = "-" THEN -1 ELSE 1) * T[2].n>>, 3)
     ELSE IF IsFixedNumber(Peek(T, 1), 4) THEN MonthDay(<<T[1].n>>, 2)
     ELSE Legacy(<<>>, T)

\* ParseES5DateTime, the time and the zone after the separator T at token
\* p - 1: the composers, not ok when the string is no date at all
ES5Time(T, st, p) ==
  LET h == Peek(T, p)
      m == Peek(T, p + 2)
      is24 == h.n = 24
      Bad == [st EXCEPT !.ok = FALSE]
      hasSec == IsSymbol(Peek(T, p + 3), ":")
      s == Peek(T, p + 4)
      q1 == IF hasSec THEN p + 5 ELSE p + 3
      hasFrac == hasSec /\ IsSymbol(Peek(T, q1), ".")
      f == Peek(T, q1 + 1)
      q2 == IF hasFrac THEN q1 + 2 ELSE q1
      time == <<h.n, m.n>> \o (IF hasSec THEN <<s.n>> ELSE <<>>)
              \o (IF hasFrac THEN <<ReadMilliseconds(f)>> ELSE <<>>)
      z == Peek(T, q2)
      hhmm == Peek(T, q2 + 1)
      End(t, q) == IF Peek(T, q).k = "end" THEN t ELSE Bad
  IN IF ~IsFixedNumber(h, 2) \/ h.n \notin 0..24 THEN Bad
     ELSE IF ~IsSymbol(Peek(T, p + 1), ":") THEN Bad
     ELSE IF ~IsFixedNumber(m, 2) \/ ~IsMinute(m.n) \/ (is24 /\ m.n > 0) THEN Bad
     ELSE IF hasSec /\ (~IsFixedNumber(s, 2) \/ ~IsSecond(s.n) \/ (is24 /\ s.n > 0))
     THEN Bad
     ELSE IF hasFrac /\ (~IsNumber(f) \/ (is24 /\ f.n > 0)) THEN Bad
     ELSE LET st1 == [st EXCEPT !.time = time]
          IN IF IsKeywordZ(z)
             THEN End([st1 EXCEPT !.sign = 1, !.hour = 0, !.minute = 0], q2 + 1)
             ELSE IF IsAsciiSign(z)
             THEN LET st2 == [st1 EXCEPT !.sign = IF z.c = "-" THEN -1 ELSE 1]
                  IN IF IsFixedNumber(hhmm, 4)
                     THEN IF ~IsHour(hhmm.n \div 100) \/ ~IsMinute(hhmm.n % 100)
                          THEN Bad
                          ELSE End([st2 EXCEPT !.hour = hhmm.n \div 100,
                                               !.minute = hhmm.n % 100], q2 + 2)
                     ELSE IF ~IsFixedNumber(hhmm, 2) \/ ~IsHour(hhmm.n) THEN Bad
                     ELSE IF ~IsSymbol(Peek(T, q2 + 2), ":") THEN Bad
                     ELSE IF ~IsFixedNumber(Peek(T, q2 + 3), 2)
                             \/ ~IsMinute(Peek(T, q2 + 3).n)
                     THEN Bad
                     ELSE End([st2 EXCEPT !.hour = hhmm.n,
                                          !.minute = T[q2 + 3].n], q2 + 4)
             ELSE End(st1, q2)

\* ParseES5DateTime: the composers and the tokens left to the legacy parser
ParseES5DateTime(T) ==
  LET d == ES5Date(T)
      st == [NoDate EXCEPT !.day = d.day]
  IN IF d.to = "legacy" THEN [st |-> st, rest |-> d.rest]
     ELSE IF ~IsKeywordType(Peek(T, d.p), "T")
     THEN IF Peek(T, d.p).k # "end"
          THEN [st |-> st, rest |-> SubSeq(T, d.p, Len(T))]
          ELSE [st |-> [st EXCEPT !.iso = TRUE, !.sign = 1, !.hour = 0,
                                  !.minute = 0],
                rest |-> <<>>]
     ELSE [st |-> [ES5Time(T, st, d.p + 1) EXCEPT !.iso = TRUE], rest |-> <<>>]

\* TimeComposer::IsExpecting
TimeIsExpecting(time, n) ==
  \/ Len(time) = 1 /\ IsMinute(n)
  \/ Len(time) = 2 /\ IsSecond(n)
  \/ Len(time) = 3 /\ n \in 0..999

\* TimeComposer::AddFinal
TimeAddFinal(time, n) ==
  IF Len(time) >= 4 THEN time
  ELSE [i \in 1..4 |-> IF i <= Len(time) THEN time[i]
                       ELSE IF i = Len(time) + 1 THEN n ELSE 0]

\* the loop of DateParser::Parse over the tokens the ES5 form left, from
\* token i on
RECURSIVE LegacyParse(_, _, _)
LegacyParse(T, i, st) ==
  IF ~st.ok \/ i > Len(T) THEN st
  ELSE
    LET tok == T[i]
        nx == Peek(T, i + 1)
        Bad == [st EXCEPT !.ok = FALSE]
    IN
    IF IsNumber(tok)
    THEN
      LET n == tok.n
          s1 == [st EXCEPT !.read = TRUE]
          j == IF IsSymbol(nx, ".") THEN i + 2 ELSE i + 1
      IN IF IsSymbol(nx, ":")
         THEN IF IsSymbol(Peek(T, i + 2), ":")
              THEN IF st.time # <<>> THEN Bad
                   ELSE LegacyParse(T, i + 3, [s1 EXCEPT !.time = <<n, 0>>])
              ELSE IF Len(st.time) >= 4 THEN Bad
              ELSE LegacyParse(T,
                     IF IsSymbol(Peek(T, i + 2), ".") THEN i + 3 ELSE i + 2,
                     [s1 EXCEPT !.time = Append(@, n)])
         ELSE IF IsSymbol(nx, ".") /\ TimeIsExpecting(st.time, n)
         THEN IF ~IsNumber(Peek(T, j)) THEN Bad
              ELSE LegacyParse(T, j + 1,
                     [s1 EXCEPT !.time = TimeAddFinal(Append(@, n),
                                           ReadMilliseconds(T[j]))])
         ELSE IF st.hour # -1 /\ st.minute = -1 /\ IsMinute(n)
         THEN LegacyParse(T, j, [s1 EXCEPT !.minute = n])
         ELSE IF TimeIsExpecting(st.time, n)
         THEN IF Peek(T, j).k \in {"end", "ws"} \/ IsKeywordZ(Peek(T, j))
                 \/ IsAsciiSign(Peek(T, j))
              THEN LegacyParse(T, j, [s1 EXCEPT !.time = TimeAddFinal(@, n)])
              ELSE Bad
         ELSE IF Len(st.day) >= 3 THEN Bad
         ELSE LegacyParse(T, IF IsSymbol(Peek(T, j), "-") THEN j + 1 ELSE j,
                [s1 EXCEPT !.day = Append(@, n)])
    ELSE IF tok.k = "word"
    THEN
      IF tok.type = "ampm" /\ st.time # <<>>
      THEN LegacyParse(T, i + 1, [st EXCEPT !.hoff = tok.value])
      ELSE IF tok.type = "month"
      THEN LegacyParse(T, IF IsSymbol(nx, "-") THEN i + 2 ELSE i + 1,
             [st EXCEPT !.named = tok.value])
      ELSE IF tok.type = "zone" /\ st.read
      THEN LegacyParse(T, i + 1,
             [st EXCEPT !.sign = IF tok.value < 0 THEN -1 ELSE 1,
                        !.hour = IF tok.value < 0 THEN 0 - tok.value
                                 ELSE tok.value,
                        !.minute = 0])
      ELSE IF st.read \/ IsNumber(nx) THEN Bad
      ELSE LegacyParse(T, i + 1, st)
    ELSE IF IsAsciiSign(tok)
            /\ ((st.hour = 0 /\ st.minute = 0) \/ st.time # <<>>)
    THEN
      LET has == IsNumber(nx)
          n == IF has THEN nx.n ELSE 0
          length == IF has THEN nx.len ELSE 0
          j == IF has THEN i + 2 ELSE i + 1
          s1 == [st EXCEPT !.sign = IF tok.c = "-" THEN -1 ELSE 1,
                           !.read = TRUE]
      IN IF IsSymbol(Peek(T, j), ":")
         THEN LegacyParse(T, j, [s1 EXCEPT !.hour = n, !.minute = -1])
         ELSE IF length \in {1, 2}
         THEN LegacyParse(T, j, [s1 EXCEPT !.hour = n, !.minute = 0])
         ELSE IF length \in {3, 4}
         THEN LegacyParse(T, j, [s1 EXCEPT !.hour = n \div 100,
                                           !.minute = n % 100])
         ELSE Bad
    ELSE IF (IsAsciiSign(tok) \/ IsSymbol(tok, ")")) /\ st.read THEN Bad
    ELSE LegacyParse(T, i + 1, st)

\* TimeZoneComposer::Write: a quarter of hour * 3600 + minute * 60 as the
\* 32-bit integer holds it, which is that sum modulo 2^32: four times
\* (hour * 900 + minute * 15) modulo 2^30.  hour * 225 modulo 2^28 is taken
\* in steps that stay below 2^31.
ZoneQuarter(hour, minute) ==
  LET Times(x, k) == (x * k) % 2^28
      hour225 == Times(Times(Times(Times(hour % 2^28, 5), 5), 3), 3)
  IN (4 * hour225 + 15 * minute) % 2^30

\* DayComposer::Write, TimeComposer::Write, TimeZoneComposer::Write and the
\* time value made of what they give, on the host env.  The offset of a
\* written zone is refused above the largest small integer of the build.
ComposeDate(st, env) ==
  IF ~st.ok \/ Len(st.day) = 0 THEN NaNDate
  ELSE
    LET comp == [i \in 1..3 |-> IF i <= Len(st.day) THEN st.day[i] ELSE 1]
        ymd == IF st.named = 0
               THEN IF st.iso \/ ~IsDay(comp[1]) THEN comp
                    ELSE <<comp[3], comp[1], comp[2]>>
               ELSE IF ~IsDay(comp[1]) THEN <<comp[1], st.named, comp[2]>>
                    ELSE <<comp[2], st.named, comp[1]>>
        year == IF st.iso THEN ymd[1]
                ELSE IF ymd[1] \in 0..49 THEN ymd[1] + 2000
                ELSE IF ymd[1] \in 50..99 THEN ymd[1] + 1900
                ELSE ymd[1]
        time == [i \in 1..4 |-> IF i <= Len(st.time) THEN st.time[i] ELSE 0]
        hour == IF st.hoff = -1 THEN time[1] ELSE (time[1] % 12) + st.hoff
        timeOk == /\ st.hoff = -1 \/ time[1] \in 0..12
                  /\ \/ /\ IsHour(hour) /\ IsMinute(time[2])
                        /\ IsSecond(time[3]) /\ time[4] \in 0..999
                     \/ hour = 24 /\ time[2] = 0 /\ time[3] = 0 /\ time[4] = 0
        zh == IF st.hour = -1 THEN 0 ELSE st.hour
        zm == IF st.minute = -1 THEN 0 ELSE st.minute
        quarter == ZoneQuarter(zh, zm)
        zoneOk == st.sign = 0 \/ quarter <= env.smi \div 4
        day == DaysFromCivil(year, ymd[2], 1) + ymd[3] - 1
        ms == hour * 3600000 + time[2] * 60000 + time[3] * 1000 + time[4]
    IN IF ~IsMonth(ymd[2]) \/ ~IsDay(ymd[3]) \/ ~timeOk \/ ~zoneOk THEN NaNDate
       ELSE IF year < -1000000 \/ year > 1000000 THEN NaNDate
       ELSE IF st.sign = 0 THEN TimeClip(day, ms - env.zone * 60000)
       ELSE TimeClip(day - st.sign * (quarter \div 21600),
                     ms - st.sign * (quarter % 21600) * 4000)

\* DateParser::Parse after the ES5 form: the legacy parser goes on with the
\* tokens left, and has read a number if the ES5 form read one
LegacyFrom(es5) ==
  LegacyParse(es5.rest, 1, [es5.st EXCEPT !.read = es5.st.day # <<>>])

\* Date.parse(s) as a Date, on the host env
DateParse(s, env) ==
  ComposeDate(LegacyFrom(ParseES5DateTime(DateTokens(s, 1))), env)

\* new Date(ts) throws a TypeError: ts is an object or an array that has no
\* primitive value
NewDateThrows(ts) == ToStrThrows(ts)

\* new Date(ts): a number (or a boolean, as a number) is the time value in
\* milliseconds, null is 0, undefined gives an invalid Date; a string is
\* parsed, and so is the string an object or an array converts to
NewDate(ts, env) ==
  CASE ts.t = "num" -> TimeClip(0, ts.n)
    [] ts.t = "bool" -> TimeClip(0, IF ts.b THEN 1 ELSE 0)
    [] ts.t = "null" -> TimeClip(0, 0)
    [] ts.t = "undef" -> NaNDate
    [] OTHER -> DateParse(IF ts.t = "str" THEN ts.s ELSE ToStr(ts), env)

\* line 27: the valid rawDate shifted by TZ_OFFSET_MS, null for any other
ShiftedDate(rawDate) ==
  IF rawDate.t = "date" /\ rawDate.valid
  THEN TimeClip(rawDate.day, rawDate.ms + TZ_OFFSET_MS)
  ELSE Null

\* lines 26-27: the stored timestamp of a raw timestamp value
NormalizeTimestamp(ts, env) ==
  ShiftedDate(IF Truthy(ts) THEN NewDate(ts, env) ELSE Null)

\* normalizeMessage(msg) throws a TypeError: msg is nullish, the timestamp
\* has no primitive value for new Date, or the contents none for String
normalizeMessageThrows(msg) ==
  \/ GetThrows(msg)
  \/ LET ts == Coalesce(Coalesce(Get(msg, "Timestamp"), Get(msg, "timestamp")),
                        Get(msg, "date"))
         contents == Coalesce(Coalesce(Coalesce(Get(msg, "Contents"),
                       Get(msg, "content")), Get(msg, "contents")), Str(""))
     IN (Truthy(ts) /\ NewDateThrows(ts)) \/ ToStrThrows(contents)

\* normalizeMessage(msg), where it does not throw
normalizeMessage(msg, env) ==
  LET id == Coalesce(Get(msg, "ID"), Get(msg, "id"))
      ts == Coalesce(Coalesce(Get(msg, "Timestamp"), Get(msg, "timestamp")),
                     Get(msg, "date"))
      contents == Coalesce(Coalesce(Coalesce(Get(msg, "Contents"),
                    Get(msg, "content")), Get(msg, "contents")), Str(""))
      attachments == Coalesce(Coalesce(Get(msg, "Attachments"),
                       Get(msg, "attachments")), Arr(<<>>))
      arr == IF attachments.t = "arr" THEN attachments.a
             ELSE IF Truthy(attachments) THEN <<attachments>> ELSE <<>>
  IN [id |-> id,
      timestamp |-> NormalizeTimestamp(ts, env),
      contents |-> ToStr(contents),
      attachments |-> arr,
      channelId |-> Null,
      guildId |-> Null,
      channelName |-> Null,
      guildName |-> Null,
      avatarUrl |-> Undef]

isMessageArray(data) ==
  IF data.t # "arr" \/ Len(data.a) = 0 THEN FALSE
  ELSE LET first == data.a[1]
       IN IF ~Truthy(first) \/ ~TypeofObject(first) THEN FALSE
          ELSE LET hasContent == HasKey(first, "Contents")
                                 \/ HasKey(first, "content")
                                 \/ HasKey(first, "contents")
                   hasTime == HasKey(first, "Timestamp")
                              \/ HasKey(first, "timestamp")
                              \/ HasKey(first, "date")
               IN hasContent \/ hasTime

isChannelMeta(data) ==
  IF ~Truthy(data) \/ ~TypeofObject(data) THEN FALSE
  ELSE \/ HasKey(data, "Channel ID")
       \/ HasKey(data, "channel_id")
       \/ HasKey(data, "Channel Id")
       \/ HasKey(data, "channelId")
       \/ (HasKey(data, "Guild ID") /\ HasKey(data, "Channel Name"))
       \/ (HasKey(data, "Guild ID") /\ HasKey(data, "channel_name"))
       \/ (HasKey(data, "User IDs")
           /\ (HasKey(data, "Channel ID") \/ HasKey(data, "channel_id")))

\* a && b
AndAnd(a, b) == IF Truthy(a) THEN b ELSE a

\* lines 63-64 of normalizeChannelMeta
MetaRecipients(data) ==
  Coalesce(Coalesce(Get(data, "Recipients"), Get(data, "recipients")),
           Get(data, "User IDs"))

FirstRecipient(data) ==
  LET recipients == MetaRecipients(data)
  IN IF recipients.t = "arr"
     THEN (IF Len(recipients.a) >= 1 THEN recipients.a[1] ELSE Undef)
     ELSE IF TypeofObject(recipients) THEN recipients ELSE Null

\* lines 67-74: the avatar value before its URL is completed
MetaAvatar(data) ==
  LET fr == FirstRecipient(data)
  IN Coalesce(Coalesce(Coalesce(Get(data, "icon_url"), Get(data, "avatar")),
                Get(data, "avatar_url")),
              AndAnd(fr, Coalesce(Get(fr, "avatar"), Get(fr, "avatar_url"))))

\* normalizeChannelMeta throws a TypeError: avatarUrl.startsWith is called on
\* a truthy value that is no string (line 70), or the template of line 73
\* takes a channel ID that cannot be made a string
normalizeChannelMetaThrows(data) ==
  LET a == MetaAvatar(data)
      channelId == Coalesce(Coalesce(Coalesce(Get(data, "Channel ID"),
                     Get(data, "channel_id")), Get(data, "ChannelId")),
                     Get(data, "channelId"))
  IN /\ Truthy(a)
     /\ \/ a.t # "str"
        \/ ~StartsWith(a.s, "http") /\ Truthy(channelId) /\ ToStrThrows(channelId)

normalizeChannelMeta(data) ==
  LET recipients == MetaRecipients(data)
      firstRecipient == FirstRecipient(data)
      channelId == Coalesce(Coalesce(Coalesce(Coalesce(Get(data, "Channel ID"),
                     Get(data, "channel_id")), Get(data, "ChannelId")),
                     Get(data, "channelId")), Null)
      dmName == Coalesce(Coalesce(Coalesce(Get(data, "Name"), Get(data, "name")),
                  Get(data, "display_name")),
                  AndAnd(firstRecipient,
                    Coalesce(Coalesce(Get(firstRecipient, "username"),
                      Get(firstRecipient, "name")),
                      Get(firstRecipient, "global_name"))))
      avatarUrl == MetaAvatar(data)
      avatarFull ==
        AndAnd(avatarUrl,
          IF StartsWith(avatarUrl.s, "http") THEN avatarUrl
          ELSE IF Truthy(channelId)
               THEN Str("https://cdn.discordapp.com/avatars/" \o ToStr(channelId)
                        \o "/" \o avatarUrl.s \o ".png")
               ELSE Null)
  IN [guildId |-> Coalesce(Coalesce(Coalesce(Get(data, "Guild ID"),
                    Get(data, "guild_id")), Get(data, "GuildId")), Null),
      channelId |-> channelId,
      channelName |-> Coalesce(Coalesce(Coalesce(Coalesce(
                        Get(data, "Channel Name"), Get(data, "channel_name")),
                        Get(data, "ChannelName")), dmName), Str("Unknown")),
      guildName |-> Coalesce(Coalesce(Coalesce(Get(data, "Guild Name"),
                      Get(data, "guild_name")), Get(data, "GuildName")), Null),
      userIds |-> Coalesce(Coalesce(Get(data, "User IDs"), Get(data, "user_ids")),
                    Null),
      avatarUrl |-> IF Truthy(avatarFull) THEN avatarFull ELSE Null,
      recipients |-> IF recipients.t = "arr" THEN recipients
                     ELSE IF Truthy(firstRecipient) THEN Arr(<<firstRecipient>>)
                     ELSE Null]

\* the regular expression ^[c~]?\d{15,}$ of looksLikeId
MatchesIdPattern(s) ==
  LET body == IF s # "" /\ CharAt(s, 1) \in {"c", "~"} THEN Tail(s) ELSE s
  IN Len(body) >= 15 /\ AllDigits(body)

\* looksLikeId without the trim
MutLooksLikeIdUntrimmed(v) ==
  IF Nullish(v) \/ v.t # "str" THEN FALSE
  ELSE MatchesIdPattern(v.s) \/ (Len(v.s) > 16 /\ AllDigits(v.s))

looksLikeId(v) ==
  IF Nullish(v) \/ v.t # "str" THEN FALSE
  ELSE LET s == Trim(v.s)
       IN MatchesIdPattern(s) \/ (Len(s) > 16 /\ s # "" /\ AllDigits(s))

----------------------------------------------------------------------------
(* Path classifier                                                         *)

CHANNEL_META_NAMES == {"channel.json", "metadata.json"}

\* CHANNEL_META_NAMES.some((n) => name.toLowerCase() === n.toLowerCase())
IsMetaName(name) ==
  \E n \in CHANNEL_META_NAMES : ToLowerCase(name) = ToLowerCase(n)

\* parts.slice(0, -1).join('/')
ParentPath(parts) == Join(SubSeq(parts, 1, Len(parts) - 1), "/")

\* path.replace(/\\/g, '/')
RECURSIVE SlashForward(_)
SlashForward(s) ==
  IF s = "" THEN ""
  ELSE (IF CharAt(s, 1) = "\\" THEN "/" ELSE CharAt(s, 1)) \o SlashForward(Tail(s))

\* p.replace(/^\/+/, '')
RECURSIVE StripLeadingSlashes(_)
StripLeadingSlashes(s) ==
  IF s # "" /\ CharAt(s, 1) = "/" THEN StripLeadingSlashes(Tail(s)) ELSE s

\* path.replace(/\\/g, '/').replace(/^\/+/, '')
NormPath(path) == StripLeadingSlashes(SlashForward(path))

\* p.split('/').filter(Boolean)
Segments(p) == SelectSeq(Split(p, "/"), LAMBDA x : x # "")

\* s.indexOf(sub), counted from 1 and searched from i on; 0 when sub does
\* not occur
RECURSIVE IndexOfFrom(_, _, _)
IndexOfFrom(s, sub, i) ==
  IF i + Len(sub) - 1 > Len(s) THEN 0
  ELSE IF SubSeq(s, i, i + Len(sub) - 1) = sub THEN i
  ELSE IndexOfFrom(s, sub, i + 1)

IndexOf(s, sub) == IndexOfFrom(s, sub, 1)

\* lines 134-145: the channel path parseZip gives a file, "" when the file
\* belongs to no channel
ZipChannelPath(path) ==
  LET parts == Split(path, "/")
  IN IF EndsWith(ToLowerCase(path), ".json")
        /\ parts[1] = "messages" /\ Len(parts) >= 3
     THEN ParentPath(parts) ELSE ""

\* lines 430-445: the channel path parseFileList gives a file, "" when none
ListChannelPath(path) ==
  LET p == NormPath(path)
      parts == Segments(p)
  IN IF ~EndsWith(ToLowerCase(p), ".json") THEN ""
     ELSE IF Len(parts) >= 3 /\ ToLowerCase(parts[1]) = "messages"
          THEN ParentPath(parts)
     ELSE IF IndexOf(ToLowerCase(p), "messages/") > 0 /\ Len(parts) >= 2
          THEN LET i == IndexOf(ToLowerCase(p), "messages/")
                   segs == Segments(SubSeq(p, i, Len(p)))
               IN IF Len(segs) >= 2 THEN ParentPath(segs) ELSE ""
     ELSE IF Len(parts) = 2 THEN parts[1]
     ELSE ""

\* the last path segment, the file's name
ZipFileName(path) == LET parts == Split(path, "/") IN parts[Len(parts)]

ListFileName(path) ==
  LET parts == Segments(NormPath(path))
  IN IF Len(parts) = 0 THEN "" ELSE parts[Len(parts)]

Candidate(path, channelPath, fi) ==
  [path |-> path, channelPath |-> channelPath, fi |-> fi]

\* lines 133-146: the candidates of parseZip among the files from i on;
\* metaOnly selects metaFiles, otherwise messageFiles
RECURSIVE ZipCandidates(_, _, _)
ZipCandidates(fs, i, metaOnly) ==
  IF i > Len(fs) THEN <<>>
  ELSE LET path == fs[i].path
           cp == ZipChannelPath(path)
           here == IF cp # "" /\ (~metaOnly \/ IsMetaName(ZipFileName(path)))
                   THEN <<Candidate(path, cp, i)>> ELSE <<>>
       IN here \o ZipCandidates(fs, i + 1, metaOnly)

\* lines 429-450: the candidates of the primary scan of parseFileList
RECURSIVE ListCandidates(_, _, _)
ListCandidates(fs, i, metaOnly) ==
  IF i > Len(fs) THEN <<>>
  ELSE LET path == fs[i].path
           cp == ListChannelPath(path)
           here == IF cp # "" /\ (~metaOnly \/ IsMetaName(ListFileName(path)))
                   THEN <<Candidate(NormPath(path), cp, i)>> ELSE <<>>
       IN here \o ListCandidates(fs, i + 1, metaOnly)

\* lines 452-462: the fallback scan, any file named messages.json
RECURSIVE FallbackCandidates(_, _)
FallbackCandidates(fs, i) ==
  IF i > Len(fs) THEN <<>>
  ELSE LET p == NormPath(fs[i].path)
           parts == Segments(p)
           name == IF Len(parts) = 0 THEN "" ELSE parts[Len(parts)]
           cp == IF Len(parts) >= 2 THEN ParentPath(parts)
                 ELSE IF Len(parts) >= 1 /\ parts[1] # "" THEN parts[1]
                 ELSE "unknown"
           here == IF ToLowerCase(name) = "messages.json"
                   THEN <<Candidate(p, cp, i)>> ELSE <<>>
       IN here \o FallbackCandidates(fs, i + 1)

ListMessageCandidates(fs) ==
  LET primary == ListCandidates(fs, 1, FALSE)
  IN IF Len(primary) = 0 THEN FallbackCandidates(fs, 1) ELSE primary

\* lines 203 and 537-540: the files read as account info
IsZipAccountPath(path) ==
  StartsWith(path, "account/") /\ EndsWith(ToLowerCase(path), ".json")

IsListAccountPath(path) ==
  LET p == ToLowerCase(SlashForward(path))
  IN StartsWith(p, "account/") /\ EndsWith(p, ".json")

\* lines 215-218 and 548-551: the file taken as the global index
IsZipIndexPath(path) ==
  LET p == ToLowerCase(SlashForward(path))
  IN p = "messages/index.json" \/ EndsWith(p, "/messages/index.json")

IsListIndexPath(path) ==
  LET p == ToLowerCase(SlashForward(path))
  IN p = "messages/index.json" \/ EndsWith(p, "/messages/index.json")
     \/ p = "index.json"

\* files.find(...): the position of the first file from i on that is taken
\* as the global index, 0 if none is
RECURSIVE FindIndexFile(_, _, _)
FindIndexFile(fs, zip, i) ==
  IF i > Len(fs) THEN 0
  ELSE IF (IF zip THEN IsZipIndexPath(fs[i].path) ELSE IsListIndexPath(fs[i].path))
       THEN i
  ELSE FindIndexFile(fs, zip, i + 1)

\* the positions, in order, of the files from i on that are read as account
\* info
RECURSIVE AccountCandidates(_, _, _)
AccountCandidates(fs, zip, i) ==
  IF i > Len(fs) THEN <<>>
  ELSE (IF (IF zip THEN IsZipAccountPath(fs[i].path)
            ELSE IsListAccountPath(fs[i].path))
        THEN <<i>> ELSE <<>>) \o AccountCandidates(fs, zip, i + 1)

----------------------------------------------------------------------------
(* The passes of parseZip and parseFileList over the candidates            *)

\* the decoded text of a file that is no JSON: JSON.parse throws on it
Invalid == [t |-> "invalid"]

\* the parsed data v with every object and array in it marked as the one
\* made at the place ref of a parse
RECURSIVE Stamp(_, _)
Stamp(v, ref) ==
  CASE v.t = "obj" ->
         [t |-> "obj", ref |-> ref,
          f |-> [k \in DOMAIN v.f |-> Stamp(v.f[k], ref \o "/" \o k)]]
    [] v.t = "arr" ->
         [t |-> "arr", ref |-> ref,
          a |-> [i \in 1..Len(v.a) |->
                   Stamp(v.a[i], ref \o "/" \o NatToStr(i - 1))]]
    [] OTHER -> v

\* JSON.parse(text) of the text that holds the data content; call names the
\* call (the pass and the file).  Every call makes new objects and arrays:
\* two of them are the same only when they come from the same place of the
\* same call.  On text that is no JSON the call throws, and the result is
\* Invalid
JSONParse(content, call) == Stamp(content, call)

\* SameValueZero(a, b), the equality of Map keys: objects and arrays by
\* identity (one written out in place is a new one), anything else by value
SameValueZero(a, b) ==
  IF a.t \in {"obj", "arr"} \/ b.t \in {"obj", "arr"}
  THEN /\ a.t = b.t
       /\ "ref" \in DOMAIN a /\ "ref" \in DOMAIN b
       /\ a.ref = b.ref
  ELSE a = b

\* the names of the properties every object inherits from Object.prototype,
\* all functions but the accessor "__proto__"
ObjectPrototypeNames ==
  {"constructor", "__defineGetter__", "__defineSetter__", "hasOwnProperty",
   "__lookupGetter__", "__lookupSetter__", "isPrototypeOf",
   "propertyIsEnumerable", "toString", "valueOf", "toLocaleString"}

\* the names of the functions an array inherits from Array.prototype
ArrayPrototypeNames ==
  {"constructor", "at", "concat", "copyWithin", "fill", "find", "findIndex",
   "findLast", "findLastIndex", "lastIndexOf", "pop", "push", "reverse",
   "shift", "unshift", "slice", "sort", "splice", "includes", "indexOf",
   "join", "keys", "entries", "values", "forEach", "filter", "flat",
   "flatMap", "map", "every", "some", "reduce", "reduceRight",
   "toLocaleString", "toString", "toReversed", "toSorted", "toSpliced",
   "with"}

\* the object {} the parser uses as a dictionary: its own properties and its
\* prototype, which an assignment to "__proto__" replaces
EmptyObject == [own |-> NoProps, proto |-> ObjectPrototype]

\* obj[k] = v on a dictionary.  Under "__proto__" an own property is written
\* only if there is one already or the prototype has one of its own (as a
\* parsed object can); otherwise the setter of Object.prototype runs, which
\* makes an object, an array or null the prototype and ignores anything else
Put(obj, k, v) ==
  IF \/ k # "__proto__"
     \/ k \in DOMAIN obj.own
     \/ obj.proto.t = "null"
     \/ (obj.proto.t = "obj" /\ k \in DOMAIN obj.proto.f)
  THEN [obj EXCEPT !.own = [x \in DOMAIN obj.own \cup {k} |->
                              IF x = k THEN v ELSE obj.own[x]]]
  ELSE IF v.t \in {"obj", "arr", "null", "fn", "objproto"}
  THEN [obj EXCEPT !.proto = v]
  ELSE obj

\* obj[k] on a dictionary: an own property, else what the prototype has
\* (the properties of a parsed object or the elements, length and functions
\* of a parsed array), else what Object.prototype gives every object
Lookup(obj, k) ==
  LET p == obj.proto
  IN IF k \in DOMAIN obj.own THEN obj.own[k]
     ELSE IF p.t = "null" THEN Undef
     ELSE IF p.t = "obj" /\ k \in DOMAIN p.f THEN p.f[k]
     ELSE IF p.t = "arr" /\ \E i \in 1..Len(p.a) : NatToStr(i - 1) = k
     THEN p.a[CHOOSE i \in 1..Len(p.a) : NatToStr(i - 1) = k]
     ELSE IF p.t = "arr" /\ k = "length" THEN Num(Len(p.a))
     ELSE IF p.t = "arr" /\ k \in ArrayPrototypeNames
     THEN Fn(IF k = "constructor" THEN "Array" ELSE k)
     ELSE IF k = "__proto__" THEN p
     ELSE IF k \in ObjectPrototypeNames
     THEN Fn(IF k = "constructor" THEN "Object" ELSE k)
     ELSE Undef

\* map.set(key, value) on a Map kept as the sequence of its entries in
\* insertion order: an existing key keeps its place
MapSet(m, key, value) ==
  IF \E i \in 1..Len(m) : SameValueZero(m[i].key, key)
  THEN [i \in 1..Len(m) |->
          IF SameValueZero(m[i].key, key) THEN [key |-> m[i].key, value |-> value]
          ELSE m[i]]
  ELSE Append(m, [key |-> key, value |-> value])

\* the metadata of a channel path that has none: the object {}
EmptyMeta == Obj(NoProps)

\* lines 120-128 (parseZip, zip) and 418-424 (parseFileList, which gives its
\* result no activity and no account): the result before the passes
EmptyResult(zip) ==
  [messages |-> <<>>, channels |-> <<>>,
   channelMetaByPath |-> EmptyObject,
   channelIdToName |-> EmptyObject,
   guilds |-> <<>>,
   activity |-> IF zip THEN Null ELSE Undef,
   account |-> IF zip THEN Null ELSE Undef]

\* lines 162 and 488: a DM channel's metadata gives a usable display name
MetaNamesDm(meta) ==
  /\ ~Truthy(meta.guildId)
  /\ Truthy(meta.channelId)
  /\ Truthy(meta.channelName)
  /\ ~looksLikeId(meta.channelName)
  /\ meta.channelName # Str("Unknown")

\* the channel ID of the metadata cannot be made a property key, and the
\* assignment that needs it throws: line 481 of parseFileList (isList),
\* line 163 of parseZip
ApplyMetaThrows(meta, isList) ==
  /\ ToStrThrows(meta.channelId)
  /\ IF isList THEN Truthy(meta.channelId) ELSE MetaNamesDm(meta)

\* lines 156-166 (parseZip) and 479-492 (parseFileList, isList): what one
\* metadata file adds to the result, up to the assignment that throws
ApplyMeta(res, channelPath, meta, isList) ==
  LET last == LastSegment(channelPath)
      byPath1 == Put(res.channelMetaByPath, channelPath, Obj(meta))
      byPath2 == IF isList /\ Truthy(meta.channelId)
                 THEN Put(byPath1, ToStr(meta.channelId), Obj(meta))
                 ELSE byPath1
      byPath3 == IF isList /\ last # "" /\ last # channelPath
                 THEN Put(byPath2, last, Obj(meta)) ELSE byPath2
      names1 == IF MetaNamesDm(meta)
                THEN Put(res.channelIdToName, ToStr(meta.channelId),
                         meta.channelName)
                ELSE res.channelIdToName
      names2 == IF MetaNamesDm(meta) /\ last # "" /\ Str(last) # meta.channelId
                THEN Put(names1, last, meta.channelName) ELSE names1
  IN IF isList /\ ApplyMetaThrows(meta, isList)
     THEN [res EXCEPT !.channelMetaByPath = byPath1]
     ELSE [res EXCEPT
             !.channelMetaByPath = byPath3,
             !.channels = Append(@,
                [guildId |-> meta.guildId, channelId |-> meta.channelId,
                 channelName |-> meta.channelName,
                 guildName |-> meta.guildName, userIds |-> meta.userIds,
                 avatarUrl |-> meta.avatarUrl,
                 recipients |-> meta.recipients, path |-> channelPath]),
             !.guilds = IF Truthy(meta.guildId) /\ Truthy(meta.guildName)
                        THEN MapSet(@, meta.guildId,
                               [id |-> meta.guildId, name |-> meta.guildName])
                        ELSE @,
             !.channelIdToName = IF ApplyMetaThrows(meta, isList) THEN @
                                 ELSE names2]

\* a || b
OrOr(a, b) == IF Truthy(a) THEN a ELSE b

\* line 181: result.channelMetaByPath[channelPath] || {}
ZipMeta(res, channelPath) ==
  OrOr(Lookup(res.channelMetaByPath, channelPath), EmptyMeta)

\* a lookup of the metadata that finds nothing recorded yet
MutGetMetaNothingYet(res, channelPath) == EmptyMeta

\* lines 501-508: getMeta of parseFileList
getMeta(res, channelPath) ==
  LET last == LastSegment(channelPath)
      byPath == res.channelMetaByPath
  IN OrOr(OrOr(OrOr(Lookup(byPath, channelPath), Lookup(byPath, last)),
               IF last # "" THEN Lookup(byPath, "messages/" \o last) ELSE Null),
          EmptyMeta)

\* lines 187 and 523 throw: the name is looked up in channelIdToName under
\* a channel ID that cannot be made a property key
ResolveThrows(meta, channelPath) ==
  /\ ~Truthy(Get(meta, "guildId"))
  /\ ~(Truthy(Get(meta, "channelName")) /\ ~looksLikeId(Get(meta, "channelName")))
  /\ ToStrThrows(Coalesce(Get(meta, "channelId"), Str(LastSegment(channelPath))))

\* lines 183-192 and 519-528: one raw message, normalized and resolved
\* against the metadata found for its channel path, where nothing throws
ResolveMessage(msg, meta, channelPath, names, env) ==
  LET m == normalizeMessage(msg, env)
      channelId == Coalesce(Get(meta, "channelId"),
                            Str(LastSegment(channelPath)))
      channelName ==
        IF ~Truthy(Get(meta, "guildId"))
        THEN (IF Truthy(Get(meta, "channelName"))
                 /\ ~looksLikeId(Get(meta, "channelName"))
              THEN Get(meta, "channelName")
              ELSE Coalesce(Lookup(names,
                     ToStr(Coalesce(Get(meta, "channelId"), channelId))), Null))
        ELSE Coalesce(Get(meta, "channelName"), channelId)
  IN [m EXCEPT !.channelId = channelId,
               !.guildId = Get(meta, "guildId"),
               !.channelName = channelName,
               !.guildName = Get(meta, "guildName"),
               !.avatarUrl = Coalesce(Get(meta, "avatarUrl"), Null)]

\* the loop over a transcript throws at element i, and the rest of the file
\* is lost to the catch
MessageThrows(msg, meta, channelPath) ==
  normalizeMessageThrows(msg) \/ ResolveThrows(meta, channelPath)

\* lines 182-194: the messages one transcript pushes, element by element
\* from i on, up to the element the loop throws at
RECURSIVE PushedMessages(_, _, _, _, _, _)
PushedMessages(a, i, meta, channelPath, names, env) ==
  IF i > Len(a) \/ MessageThrows(a[i], meta, channelPath) THEN <<>>
  ELSE <<ResolveMessage(a[i], meta, channelPath, names, env)>>
       \o PushedMessages(a, i + 1, meta, channelPath, names, env)

\* the loop over a transcript ends in the catch
TranscriptThrows(a, meta, channelPath) ==
  \E i \in 1..Len(a) : MessageThrows(a[i], meta, channelPath)

----------------------------------------------------------------------------
(* The global index                                                        *)

\* lines 225-227: setIndexName(id, name) throws, String(id) or String(name)
setIndexNameThrows(id, name) ==
  Truthy(id) /\ ~Nullish(name) /\ (ToStrThrows(id) \/ ToStrThrows(name))

\* lines 225-227: setIndexName(id, name)
setIndexName(names, id, name) ==
  IF Truthy(id) /\ ~Nullish(name) THEN Put(names, ToStr(id), Str(ToStr(name)))
  ELSE names

\* lines 229 and 231: the entries of an index array, from i on; reading a
\* field of a null entry throws, as setIndexName can, and the rest of the
\* index is lost
RECURSIVE IndexFromArray(_, _, _)
IndexFromArray(names, a, i) ==
  IF i > Len(a) \/ GetThrows(a[i]) THEN names
  ELSE LET c == a[i]
           id == Coalesce(Coalesce(Get(c, "id"), Get(c, "channel_id")),
                          Get(c, "channelId"))
           name == Coalesce(Coalesce(Get(c, "name"), Get(c, "channel_name")),
                            Get(c, "channelName"))
       IN IF setIndexNameThrows(id, name) THEN names
          ELSE IndexFromArray(setIndexName(names, id, name), a, i + 1)

\* line 233: the name an entry [id, v] of an index object gives
IndexEntryName(id, v) ==
  IF v.t = "str" THEN v
  ELSE IF Nullish(v) THEN Str(id)
  ELSE Coalesce(Coalesce(Coalesce(Get(v, "name"), Get(v, "channel_name")),
                  Get(v, "channelName")), Str(id))

\* line 233: the entries of an index object, each assigned under its key;
\* only the entry "__proto__" is not simply an own property afterwards
IndexFromObject(names, f) ==
  LET first == IF "__proto__" \in DOMAIN f
               THEN Put(names, "__proto__",
                        IndexEntryName("__proto__", f["__proto__"]))
               ELSE names
      others == DOMAIN f \ {"__proto__"}
  IN [first EXCEPT !.own = [id \in DOMAIN first.own \cup others |->
                              IF id \in others THEN IndexEntryName(id, f[id])
                              ELSE first.own[id]]]

\* lines 228-234: channelIdToName after the index data were applied
ApplyIndex(names, indexData) ==
  IF indexData.t = "arr" THEN IndexFromArray(names, indexData.a, 1)
  ELSE IF Nullish(indexData) \/ indexData.t = "invalid" THEN names
  ELSE IF Get(indexData, "channels").t = "arr"
       THEN IndexFromArray(names, Get(indexData, "channels").a, 1)
  ELSE IF indexData.t = "obj" THEN IndexFromObject(names, indexData.f)
  ELSE names

----------------------------------------------------------------------------
(* Local time and the date key                                             *)

\* String(n).padStart(2, '0')
Pad2(n) == IF n < 10 THEN "0" \o NatToStr(n) ELSE NatToStr(n)

\* the local day number of a Date on the host env
LocalDay(ts, env) == ts.day + (ts.ms + env.zone * 60000) \div MsPerDay

\* Date.prototype.getHours and getDay (0 = Sunday; 1970-01-01 was a Thursday)
getHours(ts, env) == ((ts.ms + env.zone * 60000) % MsPerDay) \div 3600000

\* a day of the week that numbers Sunday 7, as ISO 8601 does
MutGetDayIso(ts, env) ==
  LET d == (LocalDay(ts, env) + 4) % 7 IN IF d = 0 THEN 7 ELSE d

getDay(ts, env) == (LocalDay(ts, env) + 4) % 7

\* lines 46-49: the key of the Date d, of its local fields; null for an
\* invalid Date
DateKey(d, env) ==
  IF ~d.valid THEN Null
  ELSE LET c == CivilFromDays(LocalDay(d, env))
       IN Str(NumToStr(c[1]) \o "-" \o Pad2(c[2]) \o "-" \o Pad2(c[3]))

\* line 45: ts itself when it is a Date, new Date(ts) of any other value;
\* what new Date throws is caught at line 50 and gives no date
DateOf(ts, env) ==
  IF ts.t = "date" THEN ts
  ELSE IF NewDateThrows(ts) THEN NaNDate
  ELSE NewDate(ts, env)

\* a date key taken from the UTC fields of the date instead of the local ones
MutGetLocalDateKeyUtc(ts, env) ==
  IF Nullish(ts) THEN Null
  ELSE DateKey(DateOf(ts, env), [env EXCEPT !.zone = 0])

\* exportData.js lines 42-54: YYYY-MM-DD in local time, null for no date
getLocalDateKey(ts, env) ==
  IF Nullish(ts) THEN Null ELSE DateKey(DateOf(ts, env), env)

\* the order of a.localeCompare(b) on date keys: the characters of a key are
\* "-" and the digits, which every collation orders as this string does
KeyChars == "-0123456789"
CharRank(c) ==
  IF \E j \in 1..Len(KeyChars) : CharAt(KeyChars, j) = c
  THEN CHOOSE j \in 1..Len(KeyChars) : CharAt(KeyChars, j) = c
  ELSE 0

RECURSIVE StrLess(_, _)
StrLess(a, b) ==
  IF b = "" THEN FALSE
  ELSE IF a = "" THEN TRUE
  ELSE IF CharAt(a, 1) = CharAt(b, 1) THEN StrLess(Tail(a), Tail(b))
  ELSE CharRank(CharAt(a, 1)) < CharRank(CharAt(b, 1))

----------------------------------------------------------------------------
(* Tokens                                                                  *)

STOPWORDS ==
  {"the", "a", "an", "and", "or", "but", "in", "on", "at", "to", "for", "of",
   "with", "by", "is", "it", "i", "you", "we", "they", "this", "that", "be",
   "are", "was", "were", "been", "have", "has", "had", "do", "does", "did",
   "will", "would", "could", "should", "can", "if", "as", "so", "my", "me",
   "your", "he", "she", "his", "her", "its", "just", "not", "no", "yes", "oh",
   "um", "uh", "im", "dont", "cant", "wont", "thats", "what", "when", "where",
   "who", "how", "why", "all", "each", "every", "some", "any", "from", "up",
   "out", "about", "into", "over", "after", "before", "between", "through",
   "during", "above", "below", "more", "most", "other", "than", "then",
   "them", "these", "those", "here", "there"}

\* lines 258-264: text lowercased, cut at runs of white space (U+200B to
\* U+200D and U+FEFF, which line 261 turns into spaces, are outside the
\* modelled text), the pieces longer than one character kept.  cur is the
\* piece being read.
RECURSIVE TokensFrom(_, _, _)
TokensFrom(s, i, cur) ==
  IF i > Len(s) THEN (IF Len(cur) > 1 THEN <<cur>> ELSE <<>>)
  ELSE IF IsSpace(CharAt(s, i))
       THEN (IF Len(cur) > 1 THEN <<cur>> ELSE <<>>) \o TokensFrom(s, i + 1, "")
  ELSE TokensFrom(s, i + 1, cur \o CharAt(s, i))

tokenize(text) == TokensFrom(ToLowerCase(text), 1, "")

\* [\w~]
IsWordChar(c) ==
  \/ IsDigit(c) \/ c = "_" \/ c = "~"
  \/ c \in UpperChars \/ c \in LowerChars

\* the end of the run of [\w~] that starts at i (i - 1 when it is empty)
RECURSIVE WordRunEnd(_, _)
WordRunEnd(s, i) ==
  IF i <= Len(s) /\ IsWordChar(CharAt(s, i)) THEN WordRunEnd(s, i + 1) ELSE i - 1

\* line 318: contents.match(/:[\w~]+:/g), the matches from position i on
RECURSIVE EmojiMatches(_, _)
EmojiMatches(s, i) ==
  IF i > Len(s) THEN <<>>
  ELSE IF CharAt(s, i) = ":"
       THEN LET e == WordRunEnd(s, i + 1)
            IN IF e >= i + 1 /\ e + 1 <= Len(s) /\ CharAt(s, e + 1) = ":"
               THEN <<SubSeq(s, i, e + 1)>> \o EmojiMatches(s, e + 2)
               ELSE EmojiMatches(s, i + 1)
  ELSE EmojiMatches(s, i + 1)

\* /^:[\w~]+:$/.test(w)
IsEmojiShaped(w) ==
  /\ Len(w) >= 3
  /\ CharAt(w, 1) = ":" /\ CharAt(w, Len(w)) = ":"
  /\ \A i \in 2..(Len(w) - 1) : IsWordChar(CharAt(w, i))

\* counts.set(w, (counts.get(w) || 0) + 1) on a Map kept in insertion order
CountUp(counts, w) ==
  IF \E i \in 1..Len(counts) : counts[i].key = w
  THEN [i \in 1..Len(counts) |->
          IF counts[i].key = w
          THEN [key |-> w, count |-> counts[i].count + 1] ELSE counts[i]]
  ELSE Append(counts, [key |-> w, count |-> 1])

\* the loop over the tokens ws; Len(counts) >= 0 always holds and has the
\* map of the tokens so far evaluated before the next token is taken
RECURSIVE CountAll(_, _)
CountAll(counts, ws) ==
  IF Len(ws) = 0 \/ Len(counts) < 0 THEN counts
  ELSE CountAll(CountUp(counts, Head(ws)), Tail(ws))

\* every token counted as a word, stopwords too
MutCountedWordsAll(contents) == tokenize(contents)

\* lines 314-317: the tokens of a message that are counted as words
CountedWords(contents) ==
  SelectSeq(tokenize(contents), LAMBDA w : w \notin STOPWORDS)

\* lines 318-324: the emoji keys of a message
RECURSIVE LowerAll(_)
LowerAll(ws) ==
  IF Len(ws) = 0 THEN <<>> ELSE <<ToLowerCase(Head(ws))>> \o LowerAll(Tail(ws))

CountedEmojis(contents) == LowerAll(EmojiMatches(contents, 1))

\* the rows in the order of their ranks: rank[i] is the place of rows[i]
Ranked(rows, rank) ==
  [p \in 1..Len(rows) |-> rows[CHOOSE i \in 1..Len(rows) : rank[i] = p]]

\* a sort by descending count that leaves rows of equal count in the reverse
\* of their order in rows
MutSortByCountTiesReversed(rows) ==
  LET n == Len(rows)
      rank == [i \in 1..n |->
                 1 + Cardinality({j \in 1..n :
                       \/ rows[j].count > rows[i].count
                       \/ rows[j].count = rows[i].count /\ j > i})]
  IN Ranked(rows, rank)

\* rows.sort((a, b) => b.count - a.count): a stable sort, descending count;
\* a row comes after the rows of higher count and after the rows of equal
\* count that stood before it
SortByCountDesc(rows) ==
  LET n == Len(rows)
      rank == [i \in 1..n |->
                 1 + Cardinality({j \in 1..n :
                       \/ rows[j].count > rows[i].count
                       \/ rows[j].count = rows[i].count /\ j < i})]
  IN Ranked(rows, rank)

\* entries.sort((a, b) => a[0].localeCompare(b[0])) on date keys
RECURSIVE InsertByKey(_, _)
InsertByKey(sorted, r) ==
  IF Len(sorted) = 0 THEN <<r>>
  ELSE IF ~StrLess(r.key, Head(sorted).key)
       THEN <<Head(sorted)>> \o InsertByKey(Tail(sorted), r)
  ELSE <<r>> \o sorted

\* the date entries left in the order in which the dates were first met
MutSortByKeyNotAtAll(rows) == rows

RECURSIVE SortByKeyAsc(_)
SortByKeyAsc(rows) ==
  IF Len(rows) = 0 THEN <<>>
  ELSE InsertByKey(SortByKeyAsc(SubSeq(rows, 1, Len(rows) - 1)), rows[Len(rows)])

\* entries.sort((a, b) => a[0] - b[0]) on hours and days
RECURSIVE InsertByNumber(_, _)
InsertByNumber(sorted, r) ==
  IF Len(sorted) = 0 THEN <<r>>
  ELSE IF Head(sorted).key <= r.key
       THEN <<Head(sorted)>> \o InsertByNumber(Tail(sorted), r)
  ELSE <<r>> \o sorted

RECURSIVE SortByNumberAsc(_)
SortByNumberAsc(rows) ==
  IF Len(rows) = 0 THEN <<>>
  ELSE InsertByNumber(SortByNumberAsc(SubSeq(rows, 1, Len(rows) - 1)),
                      rows[Len(rows)])

\* a.slice(0, n)
Slice(a, n) == SubSeq(a, 1, IF Len(a) < n THEN Len(a) ELSE n)

----------------------------------------------------------------------------
(* Aggregation engine                                                      *)

\* line 248: the messages buildSummary keeps
HasValidTimestamp(m) == m.timestamp.t = "date" /\ m.timestamp.valid

KeptMessages(res) == SelectSeq(res.messages, HasValidTimestamp)

\* line 276
ChannelKey(m) == Coalesce(m.channelId, Str("dm"))

\* key.replace(/^\D+/, '')
RECURSIVE StripNonDigitPrefix(_)
StripNonDigitPrefix(s) ==
  IF s # "" /\ ~IsDigit(CharAt(s, 1)) THEN StripNonDigitPrefix(Tail(s)) ELSE s

\* lines 277-279 throw a TypeError: the key cannot be made a property key,
\* or the index has no name under the key and key.replace is called on a
\* truthy key that is no string
IndexLookupThrows(names, m) ==
  LET key == ChannelKey(m)
  IN \/ ToStrThrows(key)
     \/ Nullish(Lookup(names, ToStr(key))) /\ Truthy(key) /\ key.t # "str"

\* idFromIndex that forgets the lookup under the prefix-stripped key
MutIdFromIndexDirect(names, key) == Lookup(names, ToStr(key))

\* lines 277-279: idFromIndex
IdFromIndex(names, key) ==
  Coalesce(Lookup(names, ToStr(key)),
           IF Truthy(key) THEN Lookup(names, StripNonDigitPrefix(key.s)) ELSE key)

\* the display name without line 281: an ID-shaped name stays on a DM row
MutDisplayNameKeepsId(names, m) ==
  Coalesce(IdFromIndex(names, ChannelKey(m)), m.channelName)

\* the display name with the operands of line 280 swapped: metadata first
MutDisplayNameMetaFirst(names, m) ==
  LET displayName == Coalesce(m.channelName, IdFromIndex(names, ChannelKey(m)))
  IN IF ~Truthy(m.guildId) /\ Truthy(displayName) /\ looksLikeId(displayName)
     THEN Null ELSE displayName

\* lines 280-281: the display name of the channel row a message opens
DisplayName(names, m) ==
  LET displayName == Coalesce(IdFromIndex(names, ChannelKey(m)), m.channelName)
  IN IF ~Truthy(m.guildId) /\ Truthy(displayName) /\ looksLikeId(displayName)
     THEN Null ELSE displayName

\* the channel rows after message m when only a new row retains its message:
\* an existing row is counted up but the message is not pushed
MutUpsertChannelCountOnly(rows, names, m) ==
  LET key == ChannelKey(m)
  IN IF \E i \in 1..Len(rows) : SameValueZero(rows[i].channelId, key)
     THEN [i \in 1..Len(rows) |->
             IF SameValueZero(rows[i].channelId, key)
             THEN [rows[i] EXCEPT !.count = @ + 1] ELSE rows[i]]
     ELSE Append(rows,
            [channelId |-> key,
             channelName |-> DisplayName(names, m),
             guildId |-> m.guildId,
             guildName |-> m.guildName,
             avatarUrl |-> Coalesce(m.avatarUrl, Null),
             count |-> 1,
             messages |-> <<m>>])

\* lines 282-296: the channel rows after message m
UpsertChannel(rows, names, m) ==
  LET key == ChannelKey(m)
      opened ==
        IF \E i \in 1..Len(rows) : SameValueZero(rows[i].channelId, key) THEN rows
        ELSE Append(rows,
               [channelId |-> key,
                channelName |-> DisplayName(names, m),
                guildId |-> m.guildId,
                guildName |-> m.guildName,
                avatarUrl |-> Coalesce(m.avatarUrl, Null),
                count |-> 0,
                messages |-> <<>>])
  IN [i \in 1..Len(opened) |->
        IF SameValueZero(opened[i].channelId, key)
        THEN [opened[i] EXCEPT
                !.count = @ + 1,
                !.messages = Append(@, m),
                !.avatarUrl = IF Truthy(m.avatarUrl) /\ ~Truthy(@)
                              THEN m.avatarUrl ELSE @]
        ELSE opened[i]]

\* lines 298-303: the guild rows after message m
UpsertGuild(rows, m) ==
  IF ~Truthy(m.guildId) THEN rows
  ELSE LET opened ==
             IF \E i \in 1..Len(rows) : SameValueZero(rows[i].guildId, m.guildId) THEN rows
             ELSE Append(rows,
                    [guildId |-> m.guildId,
                     guildName |-> IF Truthy(m.guildName) THEN m.guildName
                                   ELSE m.guildId,
                     count |-> 0])
       IN [i \in 1..Len(opened) |->
             IF SameValueZero(opened[i].guildId, m.guildId)
             THEN [opened[i] EXCEPT !.count = @ + 1] ELSE opened[i]]

\* a Date object is truthy, null is not
DateTruthy(ts) == ts.t = "date"

EmptyAcc ==
  [byChannel |-> <<>>, byGuild |-> <<>>, byDay |-> <<>>,
   byHour |-> [i \in 1..24 |-> [key |-> i - 1, count |-> 0]],
   byDayOfWeek |-> [i \in 1..7 |-> [key |-> i - 1, count |-> 0]],
   totalWords |-> 0, wordCounts |-> <<>>,
   firstTs |-> Null, lastTs |-> Null, attachmentCount |-> 0]

\* line 306: the day of dayKey counted, unless dayKey is null or ''
CountDay(byDay, dayKey) ==
  IF Truthy(dayKey) THEN CountUp(byDay, dayKey.s) ELSE byDay

\* lines 271-325: the body of the loop over the kept messages
Accumulate(acc, m, names, env) ==
  LET ts == m.timestamp
  IN [byChannel |-> UpsertChannel(acc.byChannel, names, m),
      byGuild |-> UpsertGuild(acc.byGuild, m),
      byDay |-> CountDay(acc.byDay, IF DateTruthy(ts)
                                    THEN getLocalDateKey(ts, env) ELSE Str("")),
      byHour |-> IF DateTruthy(ts) THEN CountUp(acc.byHour, getHours(ts, env))
                 ELSE acc.byHour,
      byDayOfWeek |-> IF DateTruthy(ts)
                      THEN CountUp(acc.byDayOfWeek, getDay(ts, env))
                      ELSE acc.byDayOfWeek,
      totalWords |-> acc.totalWords + Len(tokenize(m.contents)),
      wordCounts |-> CountAll(CountAll(acc.wordCounts, CountedWords(m.contents)),
                              CountedEmojis(m.contents)),
      firstTs |-> IF DateTruthy(ts) THEN
                    (IF acc.firstTs.t # "date" \/ TimeLess(ts, acc.firstTs)
                     THEN ts ELSE acc.firstTs)
                  ELSE acc.firstTs,
      lastTs |-> IF DateTruthy(ts) THEN
                   (IF acc.lastTs.t # "date" \/ TimeLess(acc.lastTs, ts)
                    THEN ts ELSE acc.lastTs)
                 ELSE acc.lastTs,
      attachmentCount |-> acc.attachmentCount + Len(m.attachments)]

\* lines 270-326: the loop, over the messages from i on; acc.totalWords >= 0
\* always holds and has the tables so far evaluated before the next message
\* is taken
RECURSIVE AccumulateAll(_, _, _, _, _)
AccumulateAll(acc, msgs, i, names, env) ==
  IF i > Len(msgs) \/ acc.totalWords < 0 THEN acc
  ELSE AccumulateAll(Accumulate(acc, msgs[i], names, env), msgs, i + 1, names, env)

\* line 328
TopWords(wordCounts) ==
  Slice(SelectSeq(SortByCountDesc(wordCounts),
                  LAMBDA e : ~IsEmojiShaped(e.key)), 100)

\* the first 24 emoji entries in insertion order, sorted among themselves
MutTopEmojisSliceFirst(wordCounts) ==
  SortByCountDesc(Slice(SelectSeq(wordCounts,
                          LAMBDA e : IsEmojiShaped(e.key)), 24))

\* line 329
TopEmojis(wordCounts) ==
  Slice(SortByCountDesc(SelectSeq(wordCounts,
                          LAMBDA e : IsEmojiShaped(e.key))), 24)

\* lines 332-339: the words of one channel's retained messages
RECURSIVE ChannelWordCounts(_, _, _)
ChannelWordCounts(counts, msgs, i) ==
  IF i > Len(msgs) \/ Len(counts) < 0 THEN counts
  ELSE ChannelWordCounts(CountAll(counts, CountedWords(msgs[i].contents)),
                         msgs, i + 1)

\* lines 340-343: ch.messages.find(valid) and its mirror from the end
RECURSIVE FirstValid(_)
FirstValid(msgs) ==
  IF Len(msgs) = 0 THEN Null
  ELSE IF HasValidTimestamp(Head(msgs)) THEN Head(msgs).timestamp
  ELSE FirstValid(Tail(msgs))

RECURSIVE LastValid(_)
LastValid(msgs) ==
  IF Len(msgs) = 0 THEN Null
  ELSE IF HasValidTimestamp(msgs[Len(msgs)]) THEN msgs[Len(msgs)].timestamp
  ELSE LastValid(SubSeq(msgs, 1, Len(msgs) - 1))

\* lines 331-344: a channel row completed after the pass
FinishChannel(ch) ==
  [channelId |-> ch.channelId, channelName |-> ch.channelName,
   guildId |-> ch.guildId, guildName |-> ch.guildName,
   avatarUrl |-> ch.avatarUrl, count |-> ch.count, messages |-> ch.messages,
   topWords |-> Slice(SelectSeq(
                  SortByCountDesc(ChannelWordCounts(<<>>, ch.messages, 1)),
                  LAMBDA e : ~IsEmojiShaped(e.key)), 30),
   firstMessageAt |-> FirstValid(ch.messages),
   lastMessageAt |-> LastValid(ch.messages)]

\* Math.round(a / b) for a >= 0 and b > 0
RoundDiv(a, b) == (2 * a + b) \div (2 * b)

\* buildSummary throws: some kept message makes the index lookup throw
buildSummaryThrows(res) ==
  \E i \in 1..Len(KeptMessages(res)) :
     IndexLookupThrows(res.channelIdToName, KeptMessages(res)[i])

\* lines 239 and 575: Array.from(result.guilds.values())
MapValues(m) == [i \in 1..Len(m) |-> m[i].value]

\* lines 247-368: buildSummary(result), for a result it does not throw on
buildSummary(res, env) ==
  LET messages == KeptMessages(res)
      acc == AccumulateAll(EmptyAcc, messages, 1, res.channelIdToName, env)
  IN [messages |-> messages,
      channels |-> res.channels,
      guilds |-> res.guilds,
      account |-> res.account,
      activity |-> res.activity,
      stats |->
        [totalMessages |-> Len(messages),
         totalWords |-> acc.totalWords,
         avgWordsPerMessage |-> IF Len(messages) # 0
                                THEN RoundDiv(acc.totalWords, Len(messages))
                                ELSE 0,
         attachmentCount |-> acc.attachmentCount,
         firstMessageAt |-> acc.firstTs,
         lastMessageAt |-> acc.lastTs,
         byChannel |-> SortByCountDesc(
                         [i \in 1..Len(acc.byChannel) |->
                            FinishChannel(acc.byChannel[i])]),
         byGuild |-> SortByCountDesc(acc.byGuild),
         byDay |-> LET rows == SortByKeyAsc(acc.byDay)
                   IN [i \in 1..Len(rows) |->
                         [date |-> rows[i].key, count |-> rows[i].count]],
         byHour |-> LET rows == SortByNumberAsc(acc.byHour)
                    IN [i \in 1..Len(rows) |->
                          [hour |-> rows[i].key, count |-> rows[i].count]],
         byDayOfWeek |-> LET rows == SortByNumberAsc(acc.byDayOfWeek)
                         IN [i \in 1..Len(rows) |->
                               [day |-> rows[i].key, count |-> rows[i].count]],
         topWords |-> TopWords(acc.wordCounts),
         topEmojis |-> TopEmojis(acc.wordCounts)]]

----------------------------------------------------------------------------
(* Inputs                                                                  *)

MaxFiles == 3
MaxProgressFiles == 10

\* the host of a local time zone that many minutes ahead of UTC and of a
\* build with the largest small integer smi
Host(zone, smi) == [zone |-> zone, smi |-> smi]

\* a build of the engine that compresses pointers, as Chrome does, has the
\* largest small integer 2^30 - 1; one that does not, as Node, 2^31 - 1
Chrome(zone) == Host(zone, 2^30 - 1)
Node(zone) == Host(zone, 2^30 - 1 + 2^30)

\* the offsets from UTC, in minutes, of the local time zones considered
LocalOffsets == {-300, 330}

File(path, content) == [path |-> path, content |-> content]

Msg(id, ts, contents) ==
  Obj(("ID" :> Str(id)) @@ ("Timestamp" :> ts) @@ ("Contents" :> Str(contents)))

DmId == "123456789012345"

MetaGuild ==
  Obj(("Guild ID" :> Str("g1")) @@ ("Channel ID" :> Str("42"))
      @@ ("Channel Name" :> Str("general")) @@ ("Guild Name" :> Str("Srv")))
MetaDm == Obj(("Channel ID" :> Str("42")) @@ ("Name" :> Str("general")))
MetaDmIdName ==
  Obj(("Channel ID" :> Str("42")) @@ ("Channel Name" :> Str("123456789012345678")))
MetaNumericId == Obj(("Channel ID" :> Num(42)) @@ ("Guild ID" :> Str("g1")))

MsgsA ==
  Arr(<<Msg("1", Str("2024-01-01T05:00:00Z"), "hi the cat"),
        Msg("2", Str("yesterday-ish"), "cat nap :zz:"),
        Obj(("ID" :> Str("3")) @@ ("Contents" :> Str("no time")))>>)
MsgsNull ==
  Arr(<<Msg("4", Str("2024-01-02T23:30:00Z"), "cat"),
        Null,
        Msg("5", Str("2024-01-03T00:10:00Z"), "dog")>>)
MsgsB ==
  Arr(<<Msg("6", Str("2024-01-01T04:30:00Z"), ":wave: cat"),
        Msg("7", Str("2024-01-02T23:30:00Z"), "see you")>>)

IndexMap ==
  Obj(("42" :> Str("team-chat")) @@ (DmId :> Str("987654321098765432"))
      @@ ("7" :> Null))
IndexArray ==
  Arr(<<Obj(("id" :> Str("42")) @@ ("name" :> Str("team-chat"))),
        Null,
        Obj(("id" :> Str(DmId)) @@ ("name" :> Str("bob")))>>)
IndexChannels ==
  Obj("channels" :> Arr(<<Obj(("id" :> Str(DmId)) @@ ("name" :> Str("bob")))>>))

\* the files an export may hold: every file of an input is one of these
FileUniverse ==
  <<File("messages/42/channel.json", MetaGuild),
    File("messages/42/channel.json", MetaDm),
    File("messages/42/channel.json", MetaDmIdName),
    File("messages/42/channel.json", MetaNumericId),
    File("messages/42/channel.json", Invalid),
    File("messages/42/messages.json", MsgsA),
    File("messages/42/messages.json", MsgsNull),
    File("messages/c123456789012345/messages.json", MsgsB),
    File("messages/index.json", IndexMap),
    File("messages/index.json", IndexArray),
    File("messages/index.json", IndexChannels),
    File("account/user.json", Obj("id" :> Str("u1")))>>

\* the members of a set of positions of the universe, in rising order
RECURSIVE Listing(_, _)
Listing(S, i) ==
  IF i > Len(FileUniverse) THEN <<>>
  ELSE (IF i \in S THEN <<FileUniverse[i]>> ELSE <<>>) \o Listing(S, i + 1)

Reverse(a) == [i \in 1..Len(a) |-> a[Len(a) + 1 - i]]

\* the words w<i> .. w<n>, each followed by a space
RECURSIVE WordsUpTo(_, _)
WordsUpTo(i, n) ==
  IF i > n THEN "" ELSE "w" \o NatToStr(i) \o " " \o WordsUpTo(i + 1, n)

\* the emojis :e<i>: .. :e<n>:, each followed by a space
RECURSIVE EmojisUpTo(_, _)
EmojisUpTo(i, n) ==
  IF i > n THEN "" ELSE ":e" \o NatToStr(i) \o ": " \o EmojisUpTo(i + 1, n)

\* a transcript with more distinct words than topWords keeps and more
\* distinct emojis than topEmojis keeps: ten messages of ten new words, the
\* first five with five new emojis each, then two messages with the word
\* w101, the first of them with the emoji :e25: again
CrowdedMessages ==
  Arr([k \in 1..12 |->
         Msg(NatToStr(k), Str("2024-01-01T05:00:00Z"),
             IF k <= 10
             THEN WordsUpTo(10 * (k - 1) + 1, 10 * k)
                    \o (IF k <= 5 THEN EmojisUpTo(5 * (k - 1) + 1, 5 * k) ELSE "")
             ELSE IF k = 11 THEN "w101 :e25:" ELSE "w101")])

CrowdedExports ==
  {<<File("messages/42/messages.json", CrowdedMessages)>>}

\* a transcript whose timestamps are numbers: the time value 0 and a later
\* one
EpochExports ==
  {<<File("messages/42/messages.json",
          Arr(<<Msg("1", Num(0), "epoch"),
                Msg("2", Num(36000000), "later")>>))>>}

\* a transcript that lists its messages newest first
NewestFirstExports ==
  {<<File("messages/42/messages.json",
          Arr(<<Msg("2", Str("2024-01-02T09:00:00Z"), "second day"),
                Msg("1", Str("2024-01-01T09:00:00Z"), "first day")>>))>>}

\* transcripts of one message
TinyA == Arr(<<Msg("1", Str("2024-01-01T05:00:00Z"), "cat dog :zz: :aa:")>>)
TinyB == Arr(<<Msg("2", Str("2024-01-01T06:00:00Z"), "dog emu the :aa:")>>)

\* a guild whose ID is an object: every parse of the file makes a new one
MetaObjectGuild ==
  Obj(("Guild ID" :> Obj("n" :> Num(1))) @@ ("Channel ID" :> Str("42"))
      @@ ("Channel Name" :> Str("general")) @@ ("Guild Name" :> Str("Srv")))

\* exports that hold what JSON can hold and Discord does not write: a
\* channel directory named like a property every object inherits; a DM
\* channel with the ID "__proto__"; contents and a channel ID that cannot
\* be made strings; timestamps in other forms than the ISO one, among them
\* a day past the end of its month, a local time, a date without a time and
\* an array; two channels of guilds whose IDs are equal objects
ExoticExports ==
  {<<File("messages/constructor/messages.json", TinyA)>>,
   <<File("messages/9/channel.json",
          Obj(("Channel ID" :> Str("__proto__")) @@ ("name" :> Str("bob")))),
     File("messages/9/messages.json", TinyA)>>,
   <<File("messages/42/messages.json",
          Arr(<<Msg("1", Str("2024-01-01T05:00:00Z"), "kept"),
                Obj(("ID" :> Str("2"))
                    @@ ("Timestamp" :> Str("2024-01-01T06:00:00Z"))
                    @@ ("Contents" :> Obj("toString" :> Str("x")))),
                Msg("3", Str("2024-01-01T07:00:00Z"), "lost")>>))>>,
   <<File("messages/42/channel.json",
          Obj(("Channel ID" :> Obj("toString" :> Num(1)))
              @@ ("name" :> Str("bob")))),
     File("messages/42/messages.json", TinyA)>>,
   <<File("messages/42/messages.json",
          Arr(<<Msg("1", Str("2024-02-30T05:00:00Z"), "rolled over"),
                Msg("2", Str("2024-01-01 05:00:00"), "local time"),
                Msg("3", Str("2024-01-01"), "date only"),
                Msg("4", Arr(<<Num(5)>>), "an array"),
                Msg("5", Str("2024-01-01T24:00:00Z"), "midnight"),
                Msg("6", Str("2024-01-01T05:00:30.5Z"), "seconds")>>))>>,
   <<File("messages/1/channel.json", MetaObjectGuild),
     File("messages/1/messages.json", TinyA),
     File("messages/2/channel.json", MetaObjectGuild),
     File("messages/2/messages.json", TinyB)>>}

\* timestamps that name a zone more than 2^30 - 1 seconds from UTC: one
\* below 2^31, one the 32-bit integer wraps, one it wraps to above 2^31 - 1
FarZoneExports ==
  {<<File("messages/42/messages.json",
          Arr(<<Msg("1", Str("1/2/2024 10:00 +298261:49"), "far"),
                Msg("2", Str("1/2/2024 10:00 +123456789:00"), "wrapped"),
                Msg("3", Str("1/2/2024 10:00 +600000:00"), "refused"),
                Msg("4", Str("1/2/2024 10:00 +298261:00"), "near")>>))>>}

\* the inputs: at most MaxFiles files of the universe with distinct paths,
\* listed in the universe's order or in the reverse order
FileLists ==
  LET sets == {S \in SUBSET (1..Len(FileUniverse)) :
                 /\ Cardinality(S) <= MaxFiles
                 /\ \A i, j \in S : i # j =>
                      FileUniverse[i].path # FileUniverse[j].path}
  IN {Listing(S, 1) : S \in sets} \cup {Reverse(Listing(S, 1)) : S \in sets}
       \cup CrowdedExports \cup EpochExports \cup NewestFirstExports
       \cup ExoticExports

OneMessage == Arr(<<Msg("1", Str("2024-01-01T05:00:00Z"), "hi")>>)

\* n files: the first k are the channel.json of directories c1..ck, of a
\* shape that is neither metadata nor a transcript, the others are
\* transcripts of one message each in the directory c0
ProgressFiles(n, k) ==
  [i \in 1..n |->
     IF i <= k
     THEN File("messages/c" \o NatToStr(i) \o "/channel.json",
               Obj("note" :> Str("x")))
     ELSE File("messages/c0/part" \o NatToStr(i) \o ".json", OneMessage)]

MaxPathFiles == 2

MetaNoName == Obj(("Guild ID" :> Str("g1")) @@ ("Channel ID" :> Str("42")))
MetaChannelIdSpaced == Obj("Channel Id" :> Str("42"))
MetaChannelIdJoined == Obj("ChannelId" :> Str("42"))
MetaOtherGuild ==
  Obj(("Guild ID" :> Str("g2")) @@ ("Channel ID" :> Str("7"))
      @@ ("Channel Name" :> Str("random")))

\* files whose paths the two classifiers may read differently
PathUniverse ==
  <<File("messages/42/channel.json", MetaNoName),
    File("messages/42/channel.json", MetaChannelIdSpaced),
    File("messages/42/channel.json", MetaChannelIdJoined),
    File("messages/42/messages.json", TinyA),
    File("package/messages/7/messages.json", TinyB),
    File("a/b/c/messages.json", TinyB),
    File("messages.json", TinyA),
    File("9/messages.json", TinyB),
    File("Messages/7/metadata.json", MetaOtherGuild),
    File("messages/index.json", IndexMap),
    File("index.json", IndexChannels),
    File("account/user.json", Obj("id" :> Str("u1")))>>

\* exports of two channels in two guilds with one message each, so that
\* channels, guilds, words and emojis tie on their counts
TiedExports ==
  {<<File("messages/42/channel.json", MetaNoName),
     File("messages/42/messages.json", TinyA),
     File("messages/7/channel.json", MetaOtherGuild),
     File("messages/7/messages.json", TinyA)>>,
   <<File("messages/7/channel.json", MetaOtherGuild),
     File("messages/7/messages.json", TinyB),
     File("messages/42/channel.json", MetaNoName),
     File("messages/42/messages.json", TinyA)>>}

\* an export in which the directory 7 has a transcript and no metadata,
\* while the metadata of the directory 42 declares the channel ID 7
StrayExports ==
  {<<File("messages/42/channel.json", MetaOtherGuild),
     File("messages/7/messages.json", TinyB)>>}

RECURSIVE PathListing(_, _)
PathListing(S, i) ==
  IF i > Len(PathUniverse) THEN <<>>
  ELSE (IF i \in S THEN <<PathUniverse[i]>> ELSE <<>>) \o PathListing(S, i + 1)

\* at most MaxPathFiles files of the path universe with distinct paths,
\* listed in the universe's order or in the reverse order
PathLists ==
  LET sets == {S \in SUBSET (1..Len(PathUniverse)) :
                 /\ Cardinality(S) <= MaxPathFiles
                 /\ \A i, j \in S : i # j =>
                      PathUniverse[i].path # PathUniverse[j].path}
  IN {PathListing(S, 1) : S \in sets}
       \cup {Reverse(PathListing(S, 1)) : S \in sets}
       \cup TiedExports \cup StrayExports

\* values a DM channel's metadata may carry as its name: ID-shaped strings,
\* strings that miss the shape by one character, and values that are no
\* strings
IdNames ==
  {Str("123456789012345"), Str("c123456789012345"), Str("~123456789012345"),
   Str("12345678901234"), Str("c12345678901234"), Str("1234567890123456"),
   Str("12345678901234567"), Str("c1234567890123456"),
   Str(" 123456789012345 "), Str(" 12345678901234 "),
   Str("x123456789012345"), Str("cc123456789012345"), Str("c~123456789012345"),
   Str("123456789012345x"), Str("1234567 89012345"), Str("123456789012345c"),
   Str("\f123456789012345"), Str("123456789012345"),
   Str("general"), Str("c"), Str("42"), Num(42), Null}

\* exports of one DM channel whose metadata carries one of these names
IdLists ==
  {<<File("messages/42/channel.json",
          Obj(("Channel ID" :> Str("42")) @@ ("Name" :> name))),
     File("messages/42/messages.json", TinyA)>> : name \in IdNames}

\* the exports offered to the load screen: one with a channel, and an
\* empty one
LoadLists ==
  {<<File("messages/42/channel.json", MetaGuild),
     File("messages/42/messages.json", MsgsA)>>,
   <<>>}

----------------------------------------------------------------------------
(* The parse as a state machine                                            *)

Modes == {"zip", "list", "dir"}

NoSummary == [t |-> "none"]

\* a percentage, as the fraction n / d
Pct(n) == [n |-> n, d |-> 1]

\* no directory is at hand to drop
NoDrop == [tree |-> <<>>, dirs |-> <<>>, handled |-> FALSE]

\* the state before anything was loaded
NoPick == [loading |-> FALSE, error |-> Null, data |-> Null]

Callbacks == {"good", "throws", "absent"}

\* lines 98-100, 409-411 and 583-586: a parser was called on the files fs
Started(m, fs) ==
  [mode |-> m, files |-> fs, pc |-> "start", idx |-> 0, metaFiles |-> <<>>,
   messageFiles |-> <<>>, result |-> EmptyResult(m = "zip"),
   progress |-> <<>>, status |-> "running", cause |-> "none",
   out |-> NoSummary, indexNames |-> EmptyObject]

\* no twin is run
NoTwin == [Started("list", <<>>) EXCEPT !.pc = "off", !.status = "none"]

\* a parser is called on one of the lists, on one of the hosts, with one of
\* the callbacks; compared: the same call with a well-behaved callback is
\* made beside it
InitWith(lists, hosts, callbacks, compared) ==
  /\ callback \in callbacks
  /\ ui = "off"
  /\ unlocked = FALSE
  /\ loading = FALSE
  /\ error = Null
  /\ appData = Null
  /\ before = NoPick
  /\ drop = NoDrop
  /\ earlier = <<>>
  /\ started = 0
  /\ mode \in Modes
  /\ files \in lists
  /\ host \in hosts
  /\ pc = "start"
  /\ idx = 0
  /\ metaFiles = <<>>
  /\ messageFiles = <<>>
  /\ result = EmptyResult(mode = "zip")
  /\ progress = <<>>
  /\ status = "running"
  /\ cause = "none"
  /\ out = NoSummary
  /\ indexNames = EmptyObject
  /\ twin = IF compared THEN Started(mode, files) ELSE NoTwin

\* every input in either time zone; the build of the engine shows in a
\* parse through the far zones only, so those inputs are taken on either
\* build and the others on one
Init ==
  \/ InitWith(FileLists, {Node(zone) : zone \in LocalOffsets}, {"good"}, FALSE)
  \/ InitWith(FarZoneExports,
              {Node(zone) : zone \in LocalOffsets}
                \cup {Chrome(zone) : zone \in LocalOffsets}, {"good"},
              FALSE)

InitProgress ==
  InitWith({ProgressFiles(n, k) : n \in 0..MaxProgressFiles,
                                 k \in 0..MaxProgressFiles}, {Node(0)}, {"good"},
           FALSE)

\* one call of a parser: its input, where it stands and what it has built
Run ==
  [mode |-> mode, files |-> files, pc |-> pc, idx |-> idx,
   metaFiles |-> metaFiles, messageFiles |-> messageFiles, result |-> result,
   progress |-> progress, status |-> status, cause |-> cause, out |-> out,
   indexNames |-> indexNames]

\* the parse under way becomes n
Becomes(n) ==
  /\ mode' = n.mode
  /\ files' = n.files
  /\ pc' = n.pc
  /\ idx' = n.idx
  /\ metaFiles' = n.metaFiles
  /\ messageFiles' = n.messageFiles
  /\ result' = n.result
  /\ progress' = n.progress
  /\ status' = n.status
  /\ cause' = n.cause
  /\ out' = n.out
  /\ indexNames' = n.indexNames

\* the parse r ends by throwing to its caller
Throw(r, why) == [r EXCEPT !.pc = "done", !.status = "threw", !.cause = why]

\* the parse r goes on at the place to, unless it has ended
GoOn(r, to) == IF r.pc = "done" THEN r ELSE [r EXCEPT !.pc = to]

\* onProgress(p, msg): the callback is passed the percentage; one that
\* throws on any call completes by throwing, the others return
onProgress(cb, p) == [threw |-> cb = "throws", passed |-> <<p>>]

\* lines 100 and 411, onProgress?.(p, msg): nothing is called when the
\* caller gave no callback
OptionalCall(cb, p) ==
  IF cb = "absent" THEN [threw |-> FALSE, passed |-> <<>>]
  ELSE onProgress(cb, p)

\* report without its try/catch: what the callback throws leaves report
MutReportNoCatch(cb, p) == OptionalCall(cb, p)

\* lines 100 and 411, try { onProgress?.(p, msg); } catch (_) {}: whatever
\* the call throws is caught and dropped, so report returns
report(cb, p) == [OptionalCall(cb, p) EXCEPT !.threw = FALSE]

\* the parse r after report(p): the percentage is passed on, and what report
\* throws ends the parse unless the call stands inside a try block (inTry),
\* whose catch drops it
Reports(r, cb, p, inTry) ==
  LET passed == [r EXCEPT !.progress = @ \o report(cb, p).passed]
  IN IF report(cb, p).threw /\ ~inTry THEN Throw(passed, "callback")
     ELSE passed

\* lines 98-103: parseZip reports 0 and calls JSZip.loadAsync
OpenZipStep(r, cb) ==
  IF ~(r.pc = "start" /\ r.mode = "zip") THEN r
  ELSE GoOn(Reports(r, cb, Pct(0), FALSE), "open")

\* line 103: the promise of JSZip.loadAsync settles; a rejection leaves
\* parseZip
loadAsyncStep(r, ok) ==
  IF r.pc # "open" THEN r
  ELSE IF ok THEN [r EXCEPT !.pc = "scan"]
  ELSE Throw(r, "container")

\* how collecting the files of a directory handle can end: every file was
\* collected, the iteration of dirHandle.entries() rejected, or getFile of a
\* file rejected
CollectOutcomes(fs) ==
  {"collected", "entries"} \cup (IF Len(fs) > 0 THEN {"getFile"} ELSE {})

\* lines 583-604: parseDirectoryHandle collects the files of the tree;
\* nothing catches a rejection of entries() (line 592) or getFile (line 598)
CollectFilesStep(r, outcome) ==
  IF ~(r.pc = "start" /\ r.mode = "dir") THEN r
  ELSE IF outcome = "collected" THEN [r EXCEPT !.pc = "list"]
  ELSE IF outcome = "entries" THEN Throw(r, "listing")
  ELSE Throw(r, "entry")

\* lines 409-424: parseFileList starts
StartListStep(r, cb) ==
  IF ~((r.pc = "start" /\ r.mode = "list") \/ (r.pc = "list" /\ r.mode = "dir"))
  THEN r
  ELSE GoOn(Reports(r, cb, Pct(0), FALSE), "scan")

\* the parse a goes through F unless it has ended
Unless(a, F(_)) == IF a.pc = "done" THEN a ELSE F(a)

\* lines 108-147 and 426-462: the candidates are found among the files
Classify(r) ==
  [r EXCEPT !.pc = "meta",
            !.idx = 1,
            !.metaFiles = IF r.mode = "zip" THEN ZipCandidates(r.files, 1, TRUE)
                          ELSE ListCandidates(r.files, 1, TRUE),
            !.messageFiles = IF r.mode = "zip"
                             THEN ZipCandidates(r.files, 1, FALSE)
                             ELSE ListMessageCandidates(r.files)]

\* lines 104-147 and 426-462: parseZip reports 5 (line 108), and the files
\* are classified
ScanStep(r, cb) ==
  IF r.pc # "scan" THEN r
  ELSE Unless(IF r.mode = "zip" THEN Reports(r, cb, Pct(5), FALSE) ELSE r,
              Classify)

\* lines 195-197, 494 and 531: the report that ends the body of a loop,
\* inside its try block, when it is due
ReportsIf(due, r, cb, p) == IF due THEN Reports(r, cb, p, TRUE) ELSE r

\* Math.min(5, (5 * (mi + 1)) / totalMeta)
MetaPercent(i, total) ==
  IF 5 * i >= 5 * total THEN Pct(5) ELSE [n |-> 5 * i, d |-> total]

\* lines 149-169 and 473-498: one metadata candidate is read; the read may
\* fail, and whatever the body throws is caught.  parseFileList reports at
\* the end of the body of every fifth candidate (line 494).
ReadMetaStep(r, cb, ok) ==
  IF ~(r.pc = "meta" /\ r.idx <= Len(r.metaFiles)) THEN r
  ELSE
    LET c == r.metaFiles[r.idx]
        data == JSONParse(r.files[c.fi].content, "meta" \o NatToStr(c.fi))
        applied == ok /\ data.t # "invalid" /\ isChannelMeta(data)
                   /\ ~normalizeChannelMetaThrows(data)
        thrown == \/ ~ok \/ data.t = "invalid"
                  \/ (isChannelMeta(data) /\ normalizeChannelMetaThrows(data))
                  \/ (applied /\ ApplyMetaThrows(normalizeChannelMeta(data),
                                                 r.mode # "zip"))
        read == [r EXCEPT !.idx = @ + 1,
                          !.result = IF ~applied THEN @
                                     ELSE ApplyMeta(@, c.channelPath,
                                                    normalizeChannelMeta(data),
                                                    r.mode # "zip")]
    IN ReportsIf(r.mode # "zip" /\ ~thrown /\ r.idx % 5 = 0, read, cb,
                 MetaPercent(r.idx, Len(r.metaFiles)))

\* lines 170 and 499: the report after the metadata pass
MetaDonePercent(zip) == IF zip THEN Pct(10) ELSE Pct(5)

\* the report after the message pass with the archive's 80 in both parsers
MutStatsPercentSame(zip) == Pct(80)

\* lines 200 and 536: the report after the message pass
StatsPercent(zip) == IF zip THEN Pct(80) ELSE Pct(85)

\* line 240: the last report of parseZip
FinalizingPercent == Pct(95)

\* the message pass begins
ToMessages(r) == [r EXCEPT !.pc = "messages", !.idx = 1]

\* lines 170 and 499
MetaDoneStep(r, cb) ==
  IF ~(r.pc = "meta" /\ r.idx > Len(r.metaFiles)) THEN r
  ELSE Unless(Reports(r, cb, MetaDonePercent(r.mode = "zip"), FALSE),
              ToMessages)

\* the report after message candidate i with the file list's span of 80 in
\* the archive parser too
MutMessagesPercentSpan(zip, i, total) ==
  IF zip THEN Pct(10 + (80 * i) \div total) ELSE Pct(5 + (80 * i) \div total)

\* lines 195-197 and 531: the report after message candidate i of total
MessagesPercent(zip, i, total) ==
  IF zip THEN Pct(10 + (70 * i) \div total) ELSE Pct(5 + (80 * i) \div total)

MessagesReportDue(zip, i, total) ==
  IF zip THEN i % 5 = 0 \/ i = total ELSE total > 0 /\ i % 10 = 0

\* lines 173-199 and 511-535: one message candidate is read; the report at
\* the end of the body stands inside its try block
ReadMessagesStep(r, cb, ok) ==
  IF ~(r.pc = "messages" /\ r.idx <= Len(r.messageFiles)) THEN r
  ELSE
    LET c == r.messageFiles[r.idx]
        data == JSONParse(r.files[c.fi].content, "messages" \o NatToStr(c.fi))
        readable == ok /\ data.t # "invalid"
        taken == readable /\ isMessageArray(data)
        meta == IF r.mode = "zip" THEN ZipMeta(r.result, c.channelPath)
                ELSE getMeta(r.result, c.channelPath)
        read == [r EXCEPT !.idx = @ + 1,
                          !.result =
                             IF taken
                             THEN [@ EXCEPT !.messages =
                                     @ \o PushedMessages(data.a, 1, meta,
                                            c.channelPath,
                                            r.result.channelIdToName, host)]
                             ELSE @]
    IN ReportsIf(taken /\ ~TranscriptThrows(data.a, meta, c.channelPath)
                 /\ MessagesReportDue(r.mode = "zip", r.idx,
                                      Len(r.messageFiles)),
                 read, cb,
                 MessagesPercent(r.mode = "zip", r.idx, Len(r.messageFiles)))

\* the account file is read next
ToAccount(r) == [r EXCEPT !.pc = "account"]

\* lines 200 and 536
MessagesDoneStep(r, cb) ==
  IF ~(r.pc = "messages" /\ r.idx > Len(r.messageFiles)) THEN r
  ELSE Unless(Reports(r, cb, StatsPercent(r.mode = "zip"), FALSE), ToAccount)

\* the account info read from the candidates in turn: parseZip goes on to
\* the next candidate when a read or JSON.parse fails and stops at the first
\* success, parseFileList tries the first candidate only.  failing is the
\* set of the files whose read fails.
RECURSIVE AccountRead(_, _, _, _, _)
AccountRead(fs, cands, failing, zip, old) ==
  IF Len(cands) = 0 THEN old
  ELSE IF Head(cands) \notin failing /\ fs[Head(cands)].content.t # "invalid"
       THEN JSONParse(fs[Head(cands)].content, "account" \o NatToStr(Head(cands)))
  ELSE IF zip THEN AccountRead(fs, Tail(cands), failing, zip, old)
  ELSE old

\* the sets of account candidates of the parse r whose read may fail
AccountFailures(r) ==
  LET cands == AccountCandidates(r.files, r.mode = "zip", 1)
  IN SUBSET {cands[i] : i \in 1..Len(cands)}

\* lines 202-213 and 537-546: the account file is read, best effort
ReadAccountStep(r, failing) ==
  IF r.pc # "account" THEN r
  ELSE [r EXCEPT !.pc = "index",
                 !.result.account =
                    AccountRead(r.files,
                                AccountCandidates(r.files, r.mode = "zip", 1),
                                failing, r.mode = "zip", @)]

\* the names in the global index file i of the parse r, added to names
IndexApplied(r, i, names) ==
  ApplyIndex(names, JSONParse(r.files[i].content, "index"))

\* lines 215-237 and 548-573: the global index is read, best effort
ReadIndexStep(r, ok) ==
  IF r.pc # "index" THEN r
  ELSE LET i == FindIndexFile(r.files, r.mode = "zip", 1)
       IN IF i = 0 \/ ~ok
          THEN [r EXCEPT !.pc = "build", !.indexNames = EmptyObject]
          ELSE [r EXCEPT !.pc = "build",
                         !.result.channelIdToName = IndexApplied(r, i, @),
                         !.indexNames = IndexApplied(r, i, EmptyObject)]

\* lines 241 and 576: return buildSummary(result); what buildSummary throws
\* reaches the caller.  raw is the result before line 239.
Summarized(r, raw) ==
  IF buildSummaryThrows(raw) THEN Throw(r, "content")
  ELSE [r EXCEPT !.pc = "done", !.status = "returned",
                 !.out = buildSummary(r.result, host)]

\* lines 239-241 and 575-576: the guilds become an array, parseZip reports
\* 95, and the summary is built and returned
BuildStep(r, cb) ==
  IF r.pc # "build" THEN r
  ELSE LET listed == [r EXCEPT !.result.guilds = MapValues(@)]
           reported == IF r.mode = "zip"
                       THEN Reports(listed, cb, FinalizingPercent, FALSE)
                       ELSE listed
       IN IF reported.pc = "done" THEN reported
          ELSE Summarized(reported, r.result)

\* a step moved the parse a on to b; a step leaves a parse that is not at
\* it as it is
Moved(a, b) == a.pc # b.pc \/ a.idx # b.idx

\* the calls of a parser that are followed: the parse under way, its twin,
\* and the parses that go on beside a later load
Parses == <<Run, twin>> \o earlier

\* the onProgress each was called with
CallbackOf(k) == IF k = 2 THEN "good" ELSE callback

\* who takes a step: the parse under way together with its twin, which is
\* given the same outcome of every read, or one of the parses beside it
Takers == {{1, 2}} \cup {{2 + i} : i \in 1..Len(earlier)}

First(who) == CHOOSE k \in who : \A j \in who : k <= j

\* those in who have taken a step, each if it stood at the step, and the
\* parses are now next
Taken(who, next) ==
  /\ \E k \in who : Moved(Parses[k], next[k])
  /\ Becomes(next[1])
  /\ twin' = next[2]
  /\ earlier' = SubSeq(next, 3, Len(next))
  /\ UNCHANGED <<host, callback, ui, loading, error, appData, before, drop,
                 unlocked, started>>

\* one action for each step of a parser, taken by a parse that stands at it
OpenZip ==
  \E who \in Takers :
    \E next \in {[k \in 1..Len(Parses) |->
                    IF k \in who THEN OpenZipStep(Parses[k], CallbackOf(k))
                    ELSE Parses[k]]} :
      Taken(who, next)

loadAsyncSettles ==
  \E who \in Takers, ok \in BOOLEAN :
    \E next \in {[k \in 1..Len(Parses) |->
                    IF k \in who THEN loadAsyncStep(Parses[k], ok)
                    ELSE Parses[k]]} :
      Taken(who, next)

CollectFiles ==
  \E who \in Takers :
    \E outcome \in CollectOutcomes(Parses[First(who)].files) :
      \E next \in {[k \in 1..Len(Parses) |->
                      IF k \in who THEN CollectFilesStep(Parses[k], outcome)
                      ELSE Parses[k]]} :
        Taken(who, next)

StartList ==
  \E who \in Takers :
    \E next \in {[k \in 1..Len(Parses) |->
                    IF k \in who THEN StartListStep(Parses[k], CallbackOf(k))
                    ELSE Parses[k]]} :
      Taken(who, next)

Scan ==
  \E who \in Takers :
    \E next \in {[k \in 1..Len(Parses) |->
                    IF k \in who THEN ScanStep(Parses[k], CallbackOf(k))
                    ELSE Parses[k]]} :
      Taken(who, next)

ReadMeta ==
  \E who \in Takers, ok \in BOOLEAN :
    \E next \in {[k \in 1..Len(Parses) |->
                    IF k \in who THEN ReadMetaStep(Parses[k], CallbackOf(k), ok)
                    ELSE Parses[k]]} :
      Taken(who, next)

MetaDone ==
  \E who \in Takers :
    \E next \in {[k \in 1..Len(Parses) |->
                    IF k \in who THEN MetaDoneStep(Parses[k], CallbackOf(k))
                    ELSE Parses[k]]} :
      Taken(who, next)

ReadMessages ==
  \E who \in Takers, ok \in BOOLEAN :
    \E next \in {[k \in 1..Len(Parses) |->
                    IF k \in who
                    THEN ReadMessagesStep(Parses[k], CallbackOf(k), ok)
                    ELSE Parses[k]]} :
      Taken(who, next)

MessagesDone ==
  \E who \in Takers :
    \E next \in {[k \in 1..Len(Parses) |->
                    IF k \in who
                    THEN MessagesDoneStep(Parses[k], CallbackOf(k))
                    ELSE Parses[k]]} :
      Taken(who, next)

ReadAccount ==
  \E who \in Takers :
    \E failing \in AccountFailures(Parses[First(who)]) :
      \E next \in {[k \in 1..Len(Parses) |->
                      IF k \in who THEN ReadAccountStep(Parses[k], failing)
                      ELSE Parses[k]]} :
        Taken(who, next)

ReadIndex ==
  \E who \in Takers, ok \in BOOLEAN :
    \E next \in {[k \in 1..Len(Parses) |->
                    IF k \in who THEN ReadIndexStep(Parses[k], ok)
                    ELSE Parses[k]]} :
      Taken(who, next)

Build ==
  \E who \in Takers :
    \E next \in {[k \in 1..Len(Parses) |->
                    IF k \in who THEN BuildStep(Parses[k], CallbackOf(k))
                    ELSE Parses[k]]} :
      Taken(who, next)

Next ==
  \/ OpenZip
  \/ loadAsyncSettles
  \/ CollectFiles
  \/ StartList
  \/ Scan
  \/ ReadMeta
  \/ MetaDone
  \/ ReadMessages
  \/ MessagesDone
  \/ ReadAccount
  \/ ReadIndex
  \/ Build

Spec == Init /\ [][Next]_vars

SpecProgress == InitProgress /\ [][Next]_vars

InitPaths == InitWith(PathLists, {Node(0)}, Callbacks, TRUE)

SpecPaths == InitPaths /\ [][Next]_vars

InitId == InitWith(IdLists, {Node(0)}, {"good"}, FALSE)

SpecId == InitId /\ [][Next]_vars

----------------------------------------------------------------------------
(* The load screen around the parse (LoadScreen.jsx, App.jsx)              *)

\* App.jsx line 84: hasData = data && !data.error && data.stats
hasData(d) ==
  /\ d # Null
  /\ ~("error" \in DOMAIN d /\ Truthy(d.error))
  /\ "stats" \in DOMAIN d

\* App.jsx lines 86 and 118: past the password screen, the load screen
\* shows while there is no data to show
LoadScreenShown == unlocked /\ ~hasData(appData)

\* App.jsx lines 131-139: the dashboard shows the data
DashboardShown == unlocked /\ hasData(appData)

NowShown == [loading |-> loading, error |-> error, data |-> appData]

InitLoad ==
  /\ callback = "good"
  /\ ui = "idle"
  /\ unlocked = FALSE
  /\ loading = FALSE
  /\ error = Null
  /\ appData = Null
  /\ before = NoPick
  /\ drop = NoDrop
  /\ earlier = <<>>
  /\ started = 0
  /\ mode = "zip"
  /\ files = <<>>
  /\ host = Chrome(-300)
  /\ pc = "idle"
  /\ idx = 0
  /\ metaFiles = <<>>
  /\ messageFiles = <<>>
  /\ result = EmptyResult(TRUE)
  /\ progress = <<>>
  /\ status = "none"
  /\ cause = "none"
  /\ out = NoSummary
  /\ indexNames = EmptyObject
  /\ twin = NoTwin

\* everything of the parse under way
ParseUntouched ==
  UNCHANGED <<mode, files, pc, idx, metaFiles, messageFiles, result,
              progress, status, cause, out, indexNames>>

\* App.jsx lines 40-64: handlePasswordSubmit with the password; a wrong one
\* leaves the application locked
handlePasswordSubmit ==
  /\ ~unlocked
  /\ unlocked' = TRUE
  /\ ParseUntouched
  /\ UNCHANGED <<host, twin, callback, ui, loading, error, appData, before,
                 drop, earlier, started>>

\* LoadScreen.jsx lines 25-29 and App.jsx lines 79-82: startLoad calls
\* onStartLoad, which is handleStartLoad
startLoad ==
  /\ loading' = TRUE
  /\ error' = Null

\* App.jsx lines 67-77: handleLoad; a result whose error is truthy is shown
\* as the error, any other result becomes the data
handleLoad(res) ==
  /\ loading' = FALSE
  /\ IF "error" \in DOMAIN res /\ Truthy(res.error)
     THEN error' = res.error /\ appData' = Null
     ELSE error' = Null /\ appData' = res

\* LoadScreen.jsx lines 20-23: handleError hands { error: err.message } on
handleError(err) == handleLoad([error |-> err.message])

\* LoadScreen.jsx lines 11-18: handleResult hands the Summary on
handleResult(data) == handleLoad(data)

\* an error by its name and message
Error(name, message) == [name |-> name, message |-> Str(message)]

\* the errors a failure can carry: what the engine throws inside
\* buildSummary is a TypeError; a rejection that comes from the platform
\* (JSZip, the file system, the picker, the directory reader) has the name
\* and the message the platform gave it, an AbortError and an empty message
\* among them
Failures(why) ==
  IF why = "content" THEN {Error("TypeError", why)}
  ELSE {Error(name, message) : name \in {"Error", "AbortError"},
                               message \in {why, ""}}

\* the call of readDirectoryEntry for a dropped directory has settled and
\* line 85 has not handled it yet
DropSettled ==
  /\ drop.dirs # <<>> /\ ~drop.handled
  /\ drop.dirs[1].st \in {"resolved", "rejected"}

\* the handlers of the load screen run when the screen shows and the
\* directory picker, which is modal, is not open; a promise that has
\* settled is handled before the next event
CanHandle ==
  /\ LoadScreenShown
  /\ ui # "picking"
  /\ pc # "done"
  /\ \A i \in 1..Len(earlier) : earlier[i].pc # "done"
  /\ ~DropSettled

\* the loads followed at a time: a handler starts a load beside a parse
\* that is under way as long as this many are not exceeded
MaxEarlier == 1

\* what the handlers are followed for in all: the loads they start and the
\* files they refuse
MaxLoads == 2

CanStart ==
  /\ CanHandle
  /\ started < MaxLoads
  /\ ui = "parsing" => Len(earlier) < MaxEarlier

\* nothing stops a parse that is under way when a handler starts another
\* load: it goes on beside the new one
Superseded == IF ui = "parsing" THEN Append(earlier, Run) ELSE earlier

\* LoadScreen.jsx lines 36-49 and 51-65: processZip and processFolder start
\* the load and call the parser
Process(m, fs) ==
  /\ startLoad
  /\ earlier' = Superseded
  /\ Becomes(Started(m, fs))
  /\ ui' = "parsing"
  /\ appData' = appData

\* a handler calls processZip or processFolder: one more load is followed
StartParse(m, fs) ==
  /\ Process(m, fs)
  /\ started' = started + 1

\* LoadScreen.jsx lines 109-120: a file is chosen; a ZIP is parsed, anything
\* else is refused
onSelectFile ==
  /\ CanStart
  /\ \E isZip \in BOOLEAN :
       IF isZip
       THEN \E fs \in LoadLists : StartParse("zip", fs)
       ELSE /\ handleError(Error("Error",
                                 "Please select the Discord export ZIP file."))
            /\ ui' = IF ui = "aborted" THEN "idle" ELSE ui
            /\ started' = started + 1
            /\ UNCHANGED earlier
            /\ ParseUntouched
  /\ UNCHANGED <<host, twin, drop, callback, before, unlocked>>

\* LoadScreen.jsx lines 122-131: a folder is chosen in the input; nothing
\* is done with an empty list of files
onSelectFolder ==
  /\ CanStart
  /\ \E fs \in LoadLists : Len(fs) > 0 /\ StartParse("list", fs)
  /\ UNCHANGED <<host, twin, drop, callback, before, unlocked>>

\* LoadScreen.jsx lines 133-140: the load is started and the directory
\* picker is opened
onPickFolder ==
  /\ CanStart
  /\ before' = NowShown
  /\ startLoad
  /\ started' = started + 1
  /\ earlier' = Superseded
  /\ Becomes([Run EXCEPT !.pc = "idle"])
  /\ ui' = "picking"
  /\ UNCHANGED <<host, twin, drop, callback, appData, unlocked>>

\* LoadScreen.jsx lines 140-142: the picker resolves with a directory and
\* parseDirectoryHandle is called on it
PickerResolves ==
  /\ ui = "picking"
  /\ \E fs \in LoadLists : Becomes(Started("dir", fs))
  /\ ui' = "parsing"
  /\ UNCHANGED <<host, twin, drop, callback, loading, error, appData, before,
                 unlocked, earlier, started>>

\* LoadScreen.jsx lines 144-146: the picker rejects; an AbortError, which is
\* the user cancelling, is dropped and any other error is handed on
PickerRejects ==
  /\ ui = "picking"
  /\ \E e \in Failures("picker") :
       IF e.name = "AbortError"
       THEN ui' = "aborted" /\ UNCHANGED <<loading, error, appData>>
       ELSE ui' = "idle" /\ handleError(e)
  /\ ParseUntouched
  /\ UNCHANGED <<host, twin, drop, callback, before, unlocked, earlier,
                 started>>

\* LoadScreen.jsx lines 41-46, 57-62 and 142-146: the parse r settles; its
\* Summary goes to handleResult and its error e to handleError, but for an
\* AbortError in onPickFolder, which drops it
Settles(r, e) ==
  IF r.status = "returned" THEN handleResult(r.out)
  ELSE IF r.mode = "dir" /\ e.name = "AbortError"
       THEN UNCHANGED <<loading, error, appData>>
  ELSE handleError(e)

\* the parse under way settles
ParseSettles ==
  /\ ui = "parsing" /\ pc = "done"
  /\ \E e \in Failures(cause) : Settles(Run, e)
  /\ ui' = "idle"
  /\ pc' = "idle"
  /\ UNCHANGED <<mode, files, host, idx, metaFiles, messageFiles, result,
                 progress, status, cause, out, indexNames, twin, callback,
                 before, drop, unlocked, earlier, started>>

\* s without its element i
Without(s, i) == SubSeq(s, 1, i - 1) \o SubSeq(s, i + 1, Len(s))

\* a parse that went on beside a later load settles
EarlierSettles ==
  /\ \E i \in 1..Len(earlier) :
       /\ earlier[i].pc = "done"
       /\ \E e \in Failures(earlier[i].cause) : Settles(earlier[i], e)
       /\ earlier' = Without(earlier, i)
  /\ ParseUntouched
  /\ UNCHANGED <<host, twin, callback, ui, before, drop, unlocked, started>>

\* App.jsx line 136: the dashboard's "load new" drops the data
onLoadNew ==
  /\ DashboardShown
  /\ appData' = Null
  /\ ParseUntouched
  /\ UNCHANGED <<host, twin, drop, callback, ui, loading, error, before,
                 unlocked, earlier, started>>

----------------------------------------------------------------------------
(* A folder dropped on the load screen (LoadScreen.jsx, readDirectoryEntry) *)

\* a file entry and a directory entry of a directory reader; id names the
\* directory in the tree
FileEntry(fullPath) == [kind |-> "file", fullPath |-> fullPath]
DirEntry(id) == [kind |-> "dir", id |-> id]

\* the dropped trees: for the root (1) and a subdirectory (2), the batches
\* in which the directory reader delivers the entries on successive calls
\* of readEntries
DropTrees ==
  {<<  <<  <<FileEntry("/pkg/channel.json"),
               FileEntry("/pkg/messages.json")>>  >>,  <<>>  >>,
   <<  <<  <<FileEntry("/pkg/channel.json"),
               FileEntry("/pkg/messages.json")>>,
           <<FileEntry("/pkg/c.json")>>  >>,  <<>>  >>,
   <<  <<  <<DirEntry(2), FileEntry("/pkg/messages.json")>>  >>,
       <<  <<FileEntry("/pkg/m/x.json")>>  >>  >>,
   <<  <<  <<DirEntry(2)>>  >>,
       <<  <<FileEntry("/pkg/m/x.json")>>, <<FileEntry("/pkg/m/y.json")>>  >>  >>,
   <<  <<  <<FileEntry("/pkg/channel.json"), DirEntry(2)>>  >>,  <<>>  >>,
   <<  <<>>,  <<>>  >>}

\* a call of readDirectoryEntry that was not made yet
IdleCall == [st |-> "idle", out |-> <<>>, pending |-> 0, todo |-> {}, reads |-> 0]

\* line 240: entry.fullPath?.slice(1)
PairPath(entry) == SubSeq(entry.fullPath, 2, Len(entry.fullPath))

\* what the dropped files hold: the metadata and the transcript of a
\* channel, and a transcript beside them
DroppedFile(path) ==
  File(path, IF path = "pkg/channel.json" THEN MetaGuild
             ELSE IF path = "pkg/messages.json" THEN MsgsA
             ELSE TinyA)

\* the load screen with a directory at hand, for which no call of
\* readDirectoryEntry was made yet
InitDrop ==
  /\ callback = "good" /\ ui = "idle" /\ loading = FALSE /\ error = Null
  /\ appData = Null /\ before = NoPick /\ unlocked = FALSE /\ earlier = <<>>
  /\ started = 0 /\ twin = NoTwin
  /\ drop = [tree |-> <<>>, dirs |-> [d \in 1..2 |-> IdleCall],
             handled |-> FALSE]
  /\ mode = "list" /\ files = <<>> /\ host = Chrome(0) /\ pc = "idle" /\ idx = 0
  /\ metaFiles = <<>> /\ messageFiles = <<>> /\ result = EmptyResult(FALSE)
  /\ progress = <<>> /\ status = "none" /\ cause = "none"
  /\ out = NoSummary /\ indexNames = EmptyObject

\* everything but the dropped tree
AllButDrop ==
  <<mode, files, host, pc, idx, metaFiles, messageFiles, result, progress,
    status, cause, out, indexNames, twin, callback, ui, loading, error,
    appData, before, unlocked, earlier, started>>

\* lines 222-226 and 266: readDirectoryEntry(dirEntry) creates the reader
\* and asks it for entries once
StartedCall(call) == [call EXCEPT !.st = "reading"]

\* lines 241, 252 and 255: if (--pending === 0) resolve(out)
Counted(call, e, pushed) ==
  [call EXCEPT !.out = @ \o pushed,
               !.pending = @ - 1,
               !.todo = @ \ {e},
               !.st = IF call.pending - 1 = 0 THEN "resolved" ELSE "waiting"]

\* a File of dataTransfer.files, by its name, its webkitRelativePath and
\* what it holds: the text of a file, the files of a ZIP
FileObject(name, rel, content) ==
  [name |-> name, webkitRelativePath |-> rel, content |-> content]

\* what is dropped: the kind of items[0] ("none" when the drop has no
\* items), what its webkitGetAsEntry() returns ("none" for null), and
\* dataTransfer.files
Dropped(kind, entry, fs) == [kind |-> kind, entry |-> entry, files |-> fs]

\* the files of a drop: browsers give a dropped File the webkitRelativePath
\* ""; an object that stands for a File may have none
PlainFiles ==
  <<FileObject("channel.json", Str(""), MetaGuild),
    FileObject("messages.json", Str(""), MsgsA)>>

PathlessFiles == <<FileObject("messages.json", Undef, MsgsA)>>

\* the drops made on the load screen: a ZIP, with its entry and without
\* items; a directory; plain files; a file that stands without a path; a
\* piece of text, which has no files
Drops ==
  {Dropped(with, with, <<FileObject(name, Str(""), fs)>>) :
     with \in {"file", "none"}, name \in {"package.zip", "Package.ZIP"},
     fs \in LoadLists}
  \cup {Dropped("file", "dir", <<FileObject("pkg", Str(""), <<>>)>>),
        Dropped("file", "file", PlainFiles),
        Dropped("none", "none", PathlessFiles),
        Dropped("string", "none", <<>>)}

\* lines 77 and 90: file.name.toLowerCase().endsWith('.zip')
IsZipFile(file) == EndsWith(ToLowerCase(file.name), ".zip")

\* LoadScreen.jsx lines 71-99: what onDrop calls for a drop
onDropCalls(d) ==
  LET first == d.kind = "file"
  IN IF first /\ d.entry = "file" /\ Len(d.files) > 0 /\ IsZipFile(d.files[1])
     THEN "processZip"
     ELSE IF first /\ d.entry = "dir" THEN "readDirectoryEntry"
     ELSE IF Len(d.files) = 1 /\ IsZipFile(d.files[1]) THEN "processZip"
     ELSE IF Len(d.files) = 0 THEN "nothing"
     ELSE IF \A i \in 1..Len(d.files) : ~Nullish(d.files[i].webkitRelativePath)
          THEN "processFolder"
     ELSE "handleError"

\* parser lines 382-400: normalizeFileList gives a File object the path
\* item.webkitRelativePath || item.name || ''
RECURSIVE normalizeFileList(_)
normalizeFileList(fileList) ==
  IF Len(fileList) = 0 THEN <<>>
  ELSE LET item == Head(fileList)
       IN <<File(IF Truthy(item.webkitRelativePath)
                 THEN item.webkitRelativePath.s ELSE item.name,
                 item.content)>> \o normalizeFileList(Tail(fileList))

\* LoadScreen.jsx lines 67-101: something is dropped on the load screen.  A
\* ZIP goes to processZip and plain files go to processFolder; for a
\* directory readDirectoryEntry is called on its entry, which is followed
\* as one of the loads; files without a path are refused, and a drop
\* without files does nothing.  A directory is dropped once, where one is
\* at hand.
onDrop ==
  /\ CanStart
  /\ \E d \in Drops :
       LET calls == onDropCalls(d)
       IN IF calls = "processZip"
          THEN /\ CanStart
               /\ StartParse("zip", d.files[1].content)
               /\ UNCHANGED drop
          ELSE IF calls = "processFolder"
          THEN /\ CanStart
               /\ StartParse("list", normalizeFileList(d.files))
               /\ UNCHANGED drop
          ELSE IF calls = "readDirectoryEntry"
          THEN /\ CanStart
               /\ drop.dirs # <<>> /\ drop.dirs[1].st = "idle"
               /\ \E tree \in DropTrees :
                    drop' = [drop EXCEPT !.tree = tree,
                                         !.dirs[1] = StartedCall(@)]
               /\ started' = started + 1
               /\ ParseUntouched
               /\ UNCHANGED <<ui, loading, error, appData, earlier>>
          ELSE IF calls = "handleError"
          THEN /\ handleError(Error("Error",
                       "Drop a ZIP file or select a folder via the button."))
               /\ ui' = IF ui = "aborted" THEN "idle" ELSE ui
               /\ ParseUntouched
               /\ started' = started + 1
               /\ UNCHANGED <<drop, earlier>>
          ELSE /\ ParseUntouched
               /\ UNCHANGED <<drop, ui, loading, error, appData, earlier,
                              started>>
  /\ UNCHANGED <<host, twin, callback, before, unlocked>>

\* lines 229-258: the success callback of readEntries gets the reader's next
\* batch, the empty array once the reader has delivered all its batches
ReadEntriesDelivers(d) ==
  /\ drop.dirs # <<>> /\ drop.dirs[d].st = "reading"
  /\ LET call == drop.dirs[d]
         batches == drop.tree[d]
         entries == IF call.reads < Len(batches)
                    THEN batches[call.reads + 1] ELSE <<>>
         subs == {entries[e].id : e \in {e \in 1..Len(entries) :
                                            entries[e].kind = "dir"}}
     IN drop' =
          [drop EXCEPT !.dirs =
             [x \in 1..2 |->
                IF x = d
                THEN (IF Len(entries) = 0
                      THEN [call EXCEPT !.st = "resolved", !.reads = @ + 1]
                      ELSE [call EXCEPT !.st = "waiting", !.reads = @ + 1,
                                        !.pending = Len(entries),
                                        !.todo = 1..Len(entries)])
                ELSE IF x \in subs THEN StartedCall(drop.dirs[x])
                ELSE drop.dirs[x]]]
  /\ UNCHANGED AllButDrop

\* lines 259-262: the error callback of readEntries
ReadEntriesFails(d) ==
  /\ drop.dirs # <<>> /\ drop.dirs[d].st = "reading"
  /\ drop' = [drop EXCEPT !.dirs[d].st = "rejected"]
  /\ UNCHANGED AllButDrop

\* the entry e of the batch that the call d is working on
EntryOf(d, e) == drop.tree[d][drop.dirs[d].reads][e]

\* lines 238-243: the success callback of entry.file
FileDelivered(d, e) ==
  /\ drop.dirs # <<>> /\ drop.dirs[d].st = "waiting" /\ e \in drop.dirs[d].todo
  /\ EntryOf(d, e).kind = "file"
  /\ drop' = [drop EXCEPT !.dirs[d] = Counted(@, e, <<PairPath(EntryOf(d, e))>>)]
  /\ UNCHANGED AllButDrop

\* lines 244-247: the error callback of entry.file
FileFails(d, e) ==
  /\ drop.dirs # <<>> /\ drop.dirs[d].st = "waiting" /\ e \in drop.dirs[d].todo
  /\ EntryOf(d, e).kind = "file"
  /\ drop' = [drop EXCEPT !.dirs[d].st = "rejected"]
  /\ UNCHANGED AllButDrop

\* lines 249-256: the call for a subdirectory settles; its pairs are pushed
\* or its error rejects this call
SubdirectorySettles(d, e) ==
  /\ drop.dirs # <<>> /\ drop.dirs[d].st = "waiting" /\ e \in drop.dirs[d].todo
  /\ EntryOf(d, e).kind = "dir"
  /\ LET sub == drop.dirs[EntryOf(d, e).id]
     IN /\ sub.st \in {"resolved", "rejected"}
        /\ drop' = IF sub.st = "resolved"
                   THEN [drop EXCEPT !.dirs[d] = Counted(@, e, sub.out)]
                   ELSE [drop EXCEPT !.dirs[d].st = "rejected"]
  /\ UNCHANGED AllButDrop

\* the files of the pairs that readDirectoryEntry resolved with
RECURSIVE DroppedFiles(_)
DroppedFiles(pairs) ==
  IF Len(pairs) = 0 THEN <<>>
  ELSE <<DroppedFile(Head(pairs))>> \o DroppedFiles(Tail(pairs))

\* LoadScreen.jsx line 85, .then(processFolder).catch(handleError): the
\* call for the dropped directory has settled; its pairs go to
\* processFolder, its error to handleError
readDirectoryEntrySettles ==
  /\ DropSettled
  /\ drop' = [drop EXCEPT !.handled = TRUE]
  /\ IF drop.dirs[1].st = "resolved"
     THEN Process("list", DroppedFiles(drop.dirs[1].out))
     ELSE /\ \E e \in Failures("drop") : handleError(e)
          /\ ui' = IF ui = "aborted" THEN "idle" ELSE ui
          /\ ParseUntouched
          /\ UNCHANGED earlier
  /\ UNCHANGED <<host, twin, callback, before, unlocked, started>>

NextLoad ==
  \/ handlePasswordSubmit
  \/ onSelectFile
  \/ onSelectFolder
  \/ onPickFolder
  \/ onDrop
  \/ PickerResolves
  \/ PickerRejects
  \/ ParseSettles
  \/ EarlierSettles
  \/ onLoadNew
  \/ OpenZip
  \/ loadAsyncSettles
  \/ CollectFiles
  \/ StartList
  \/ Scan
  \/ ReadMeta
  \/ MetaDone
  \/ ReadMessages
  \/ MessagesDone
  \/ ReadAccount
  \/ ReadIndex
  \/ Build

SpecLoad == InitLoad /\ [][NextLoad]_vars

NextDrop ==
  \/ handlePasswordSubmit
  \/ onDrop
  \/ readDirectoryEntrySettles
  \/ EarlierSettles
  \/ onLoadNew
  \/ OpenZip
  \/ loadAsyncSettles
  \/ StartList
  \/ Scan
  \/ ReadMeta
  \/ MetaDone
  \/ ReadMessages
  \/ MessagesDone
  \/ ReadAccount
  \/ ReadIndex
  \/ Build
  \/ ParseSettles
  \/ \E d \in 1..2 : ReadEntriesDelivers(d)
  \/ \E d \in 1..2 : ReadEntriesFails(d)
  \/ \E d \in 1..2, e \in 1..2 : FileDelivered(d, e)
  \/ \E d \in 1..2, e \in 1..2 : FileFails(d, e)
  \/ \E d \in 1..2, e \in 1..2 : SubdirectorySettles(d, e)

SpecDrop == InitDrop /\ [][NextDrop]_vars

----------------------------------------------------------------------------
(* Properties of the parse                                                 *)

Returned == status = "returned"

\* the channel rows of the Summary
Rows == out.stats.byChannel

RECURSIVE SumCounts(_)
SumCounts(rows) ==
  IF Len(rows) = 0 THEN 0 ELSE Head(rows).count + SumCounts(Tail(rows))

\* the normalized messages of the parse that carry a valid timestamp
ValidCount ==
  Cardinality({i \in 1..Len(result.messages) :
                 HasValidTimestamp(result.messages[i])})

RECURSIVE TokenTotal(_)
TokenTotal(msgs) ==
  IF Len(msgs) = 0 THEN 0
  ELSE Len(tokenize(Head(msgs).contents)) + TokenTotal(Tail(msgs))

\* an ID-shaped name does not stay on a row without a guild
Shown(r, name) ==
  IF ~Truthy(r.guildId) /\ looksLikeId(name) THEN Null ELSE name

\* the row's channel ID as a property name, and with its prefix stripped
RowKey(r) == ToStr(r.channelId)
RowStripped(r) ==
  IF r.channelId.t = "str" /\ r.channelId.s # ""
  THEN StripNonDigitPrefix(r.channelId.s) ELSE RowKey(r)

\* channelIdToName[k] gives a name
Named(k) == ~Nullish(Lookup(result.channelIdToName, k))

\* the name the global index file gave the channel ID k, undefined if none
IndexName(k) ==
  IF k \in DOMAIN indexNames.own THEN indexNames.own[k] ELSE Undef

\* a name a person would read: present, not the placeholder, not ID-shaped
UsableName(v) == Truthy(v) /\ v # Str("Unknown") /\ ~looksLikeId(v)

\* C1 as the spec states it: a message whose raw timestamp is missing or
\* unparseable is normalized with timestamp null and still counts toward
\* totalMessages and totalWords, so the totals cover every normalized
\* message of the parse, timestamped or not.
C1_NullTimestampStillCounted ==
  Returned =>
    /\ out.stats.totalMessages = Len(result.messages)
    /\ out.stats.totalWords = TokenTotal(result.messages)

\* C2: no channel row without a guildId carries an ID-shaped channelName:
\* the name is nullish or not ID-shaped; a row whose directory had no
\* metadata and whose ID the index does not name has channelName null, and a
\* row whose first message is named "general", with no name under its ID in
\* channelIdToName, keeps "general".
C2_DmRowNeverIdShaped ==
  Returned =>
    \A i \in 1..Len(Rows) :
      LET r == Rows[i]
          unnamed == ~Named(RowKey(r)) /\ ~Named(RowStripped(r))
      IN /\ ~Truthy(r.guildId) =>
              Nullish(r.channelName) \/ ~looksLikeId(r.channelName)
         /\ (r.guildId = Undef /\ unnamed /\ Nullish(r.messages[1].channelName))
              => r.channelName = Null
         /\ (unnamed /\ r.messages[1].channelName = Str("general"))
              => r.channelName = Str("general")

\* a DM directory without metadata, known only by its numeric ID, has a row
\* with channelName null next to a row that keeps "general"
C2_Witness ==
  /\ Returned
  /\ \E i, j \in 1..Len(Rows) :
       /\ Rows[i].guildId = Undef
       /\ looksLikeId(Rows[i].channelId)
       /\ Rows[i].channelName = Null
       /\ Rows[j].channelName = Str("general")

\* the name the index gives a row as the spec reads it: under the row's
\* channel ID, or else under that ID with its non-digit prefix stripped
IndexNameAsStated(r) ==
  IF IndexName(RowKey(r)) # Undef THEN IndexName(RowKey(r))
  ELSE IndexName(RowStripped(r))

\* the name of the index that reaches a row: the one under the row's channel
\* ID, or the one under the prefix-stripped ID when channelIdToName holds
\* nothing under the unstripped ID
IndexNameFor(r) ==
  IF IndexName(RowKey(r)) # Undef THEN IndexName(RowKey(r))
  ELSE IF ~Named(RowKey(r)) THEN IndexName(RowStripped(r))
  ELSE Undef

\* C3 as the spec states it: whenever the global index maps a row's channel
\* ID, or that ID with its non-digit prefix stripped, to a name, the row
\* carries the index's name.
C3_IndexNameAlwaysShown ==
  Returned =>
    \A i \in 1..Len(Rows) :
      IndexNameAsStated(Rows[i]) # Undef
        => Rows[i].channelName = IndexNameAsStated(Rows[i])

\* C3, amended: when the index maps a row's channel ID to a name, or maps
\* the prefix-stripped ID to a name while channelIdToName holds nothing under
\* the unstripped ID, the row carries the index's name instead of the
\* per-message default, except that on a row without a guildId an ID-shaped
\* index name becomes null.
C3_IndexNameShown ==
  Returned =>
    \A i \in 1..Len(Rows) :
      IndexNameFor(Rows[i]) # Undef
        => Rows[i].channelName = Shown(Rows[i], IndexNameFor(Rows[i]))

\* one row shows the index's name in place of another default, and a row
\* without a guild whose index name is ID-shaped shows null
C3_Witness ==
  /\ Returned
  /\ \E i, j \in 1..Len(Rows) :
       /\ IndexNameFor(Rows[i]) = Str("team-chat")
       /\ Rows[i].channelName = Str("team-chat")
       /\ Rows[i].messages[1].channelName # Str("team-chat")
       /\ looksLikeId(IndexNameFor(Rows[j]))
       /\ ~Truthy(Rows[j].guildId)
       /\ Rows[j].channelName = Null

\* C4 as the spec states it: metadata comes first, so a row whose metadata
\* gave its messages a usable name shows that name whatever the index says.
C4_MetadataNameFirst ==
  Returned =>
    \A i \in 1..Len(Rows) :
      UsableName(Rows[i].messages[1].channelName)
        => Rows[i].channelName = Rows[i].messages[1].channelName

\* C4, amended: channelIdToName comes first. A row whose metadata gave its
\* messages a usable name shows the name channelIdToName holds under the
\* row's channel ID, or failing that under the prefix-stripped ID, once the
\* index has been applied over the names DM metadata registered; the
\* metadata's name shows only when neither key is present. An ID-shaped name
\* on a row without a guildId becomes null.
C4_IndexNameFirst ==
  Returned =>
    \A i \in 1..Len(Rows) :
      LET r == Rows[i]
          names == result.channelIdToName
      IN UsableName(r.messages[1].channelName) =>
           r.channelName =
             IF Named(RowKey(r)) THEN Shown(r, Lookup(names, RowKey(r)))
             ELSE IF Named(RowStripped(r))
                  THEN Shown(r, Lookup(names, RowStripped(r)))
             ELSE r.messages[1].channelName

\* the metadata names a channel "general", the index names it otherwise, and
\* the row shows the index's name
C4_Witness ==
  /\ Returned
  /\ \E i \in 1..Len(Rows) :
       /\ Rows[i].messages[1].channelName = Str("general")
       /\ IndexName(RowKey(Rows[i])) # Undef
       /\ IndexName(RowKey(Rows[i])) # Str("general")
       /\ Rows[i].channelName = IndexName(RowKey(Rows[i]))

\* C5 as the spec states it: in each of the three input shapes a failure to
\* read one entry skips that entry and the parse still returns a Summary, so
\* no parse ends by throwing because an entry could not be read.
C5_EntryFailureNeverThrows ==
  status = "threw" => cause # "entry"

\* C6 as the spec states it: parseZip and parseFileList throw only when the
\* container cannot be opened; nothing the files contain makes them fail.
C6_OnlyContainerFailureThrows ==
  (mode \in {"zip", "list"} /\ status = "threw") => cause = "container"

\* C7: the 24 byHour counts and the 7 byDayOfWeek counts each sum to the
\* number of normalized messages that have a valid timestamp.
C7_HourAndWeekdaySums ==
  Returned =>
    /\ Len(out.stats.byHour) = 24
    /\ Len(out.stats.byDayOfWeek) = 7
    /\ SumCounts(out.stats.byHour) = ValidCount
    /\ SumCounts(out.stats.byDayOfWeek) = ValidCount

\* timestamped messages in two different hours, next to messages without a
\* valid timestamp
C7_Witness ==
  /\ Returned
  /\ ValidCount >= 2
  /\ ValidCount < Len(result.messages)
  /\ \E i, j \in 1..Len(out.stats.byHour) :
       i # j /\ out.stats.byHour[i].count > 0 /\ out.stats.byHour[j].count > 0
  /\ \E i, j \in 1..Len(out.stats.byDayOfWeek) :
       /\ i # j
       /\ out.stats.byDayOfWeek[i].count > 0
       /\ out.stats.byDayOfWeek[j].count > 0

\* the local calendar date of a timestamped message, as YYYY-MM-DD
LocalDateOf(m) ==
  LET c == CivilFromDays(LocalDay(m.timestamp, host))
  IN NumToStr(c[1]) \o "-" \o Pad2(c[2]) \o "-" \o Pad2(c[3])

\* the messages of the parse that fall on a local date
OnDate(date) ==
  {k \in 1..Len(result.messages) :
     /\ HasValidTimestamp(result.messages[k])
     /\ LocalDateOf(result.messages[k]) = date}

\* C8: the byDay counts sum to the number of messages with a valid
\* timestamp; there is exactly one row per local date that has a message,
\* its count the number of messages on that date; no row has count zero.
C8_ByDayRows ==
  Returned =>
    LET rows == out.stats.byDay
    IN /\ SumCounts(rows) = ValidCount
       /\ \A i, j \in 1..Len(rows) : rows[i].date = rows[j].date => i = j
       /\ \A i \in 1..Len(rows) :
            rows[i].count > 0 /\ rows[i].count = Cardinality(OnDate(rows[i].date))
       /\ \A k \in 1..Len(result.messages) :
            HasValidTimestamp(result.messages[k]) =>
              \E i \in 1..Len(rows) :
                rows[i].date = LocalDateOf(result.messages[k])

\* two local dates, one of them with two messages, next to messages without
\* a valid timestamp
C8_Witness ==
  /\ Returned
  /\ Len(out.stats.byDay) >= 2
  /\ \E i \in 1..Len(out.stats.byDay) : out.stats.byDay[i].count >= 2
  /\ ValidCount < Len(result.messages)

\* C9 as the spec states it: when the parse returns, the last percentage it
\* reported through onProgress is 100.
C9_LastReportIs100 ==
  Returned => Len(progress) > 0 /\ progress[Len(progress)] = Pct(100)

\* C9, amended: when the parse returns, the last percentage it reported
\* through onProgress is 95 for parseZip and 85 for parseFileList and
\* parseDirectoryHandle; the parser itself never reports 100.
C9_LastReport ==
  /\ \A i \in 1..Len(progress) : progress[i] # Pct(100)
  /\ Returned =>
       /\ Len(progress) > 0
       /\ progress[Len(progress)] = IF mode = "zip" THEN Pct(95) ELSE Pct(85)

\* a parse of a file list returned after reports from inside its loops
C9_Witness ==
  /\ Returned
  /\ mode = "list"
  /\ Len(progress) >= 5
  /\ progress[Len(progress)] = Pct(85)

\* C10: the percentages reported in one parse never decrease, and each lies
\* between 0 and 100.
C10_ProgressMonotone ==
  \A i \in 1..Len(progress) :
    /\ progress[i].d > 0
    /\ 0 <= progress[i].n
    /\ progress[i].n <= 100 * progress[i].d
    /\ \A j \in i..Len(progress) :
         progress[i].n * progress[j].d <= progress[j].n * progress[i].d

\* a parse of an archive returned after reports from inside its message
\* loop, some files of which it skipped
C10_Witness ==
  /\ Returned
  /\ mode = "zip"
  /\ Len(messageFiles) >= 10
  /\ Len(result.messages) < Len(messageFiles)
  /\ Len(result.messages) > 0
  /\ Len(progress) >= 7

\* C11 as the spec states it: when the user cancels the directory picker,
\* nothing is surfaced and the load state is what it was before the pick
\* was started: loading, error and data are unchanged, and loading is false.
C11_CancelRestoresLoadState ==
  ui = "aborted" =>
    /\ loading = before.loading
    /\ error = before.error
    /\ appData = before.data
    /\ loading = FALSE

\* the messages a step of the message pass adds are resolved against the
\* metadata recorded for the channel path of the candidate it reads
ResolvedAgainstRecorded ==
  LET cp == messageFiles[idx].channelPath
      byPath == result.channelMetaByPath
  IN cp \in DOMAIN byPath.own =>
       \A k \in (Len(result.messages) + 1)..Len(result'.messages) :
         /\ result'.messages[k].guildId = Get(byPath.own[cp], "guildId")
         /\ result'.messages[k].guildName = Get(byPath.own[cp], "guildName")
         /\ result'.messages[k].channelId =
              Coalesce(Get(byPath.own[cp], "channelId"), Str(LastSegment(cp)))

\* C12: the metadata pass is over before the first message is normalized:
\* no message exists while metadata candidates are still being read, no
\* metadata is recorded once the message pass has begun, and every message
\* takes its channelId, guildId and guildName from the metadata recorded for
\* its channel path, whatever the order of the files in the input.
C12_MetadataBeforeMessages ==
  [][/\ pc \in {"start", "open", "list", "scan", "meta"} =>
          result'.messages = <<>>
     /\ pc = "messages" =>
          /\ result'.channelMetaByPath = result.channelMetaByPath
          /\ result'.channels = result.channels
          /\ idx <= Len(messageFiles) => ResolvedAgainstRecorded]_vars

\* the transcript comes before the metadata file in the input, and its
\* message carries the guild of the metadata
C12_Witness ==
  /\ Len(files) = 2
  /\ files[1].path = "messages/42/messages.json"
  /\ files[2].path = "messages/42/channel.json"
  /\ mode = "list"
  /\ Len(result.messages) = 1
  /\ result.messages[1].guildId = Str("g1")
  /\ result.messages[1].channelId = Str("42")

\* C13: the progress callback only observes.  A parse called with an
\* onProgress that throws on every call, or with none, goes the way of the
\* same parse called with a well-behaved onProgress, on the same files and
\* with the same reads failing: it never ends with an exception of the
\* callback, it ends when and as the other does, and it returns the same
\* Summary; the callback that throws is still passed every percentage, and
\* nothing is reported when there is no callback.
C13_CallbackOnlyObserves ==
  /\ status = "threw" => cause # "callback"
  /\ pc = twin.pc
  /\ status = twin.status
  /\ cause = twin.cause
  /\ result = twin.result
  /\ out = twin.out
  /\ progress = IF callback = "absent" THEN <<>> ELSE twin.progress

\* a parse with a callback that throws on every call returned the Summary,
\* of the messages it read, that the parse with the well-behaved callback
\* returned after its reports
C13_Witness ==
  /\ Returned
  /\ callback = "throws"
  /\ out.stats.totalMessages > 0
  /\ twin.status = "returned"
  /\ twin.out = out
  /\ Len(twin.progress) >= 3

\* the files have been classified
Classified ==
  \/ pc \in {"meta", "messages", "account", "index", "build"}
  \/ status = "returned"

\* C14 as the spec states it: classification does not depend on the adapter,
\* so the metadata candidates and the message candidates a parse selected,
\* with their channel paths, are those the archive parser selects for these
\* paths and also those the file-list parser selects for them.
C14_SameCandidatesEitherWay ==
  Classified =>
    /\ metaFiles = ZipCandidates(files, 1, TRUE)
    /\ metaFiles = ListCandidates(files, 1, TRUE)
    /\ messageFiles = ZipCandidates(files, 1, FALSE)
    /\ messageFiles = ListMessageCandidates(files)

\* the message candidates the primary scan of the parser in use selects
PrimaryCandidates ==
  IF mode = "zip" THEN ZipCandidates(files, 1, FALSE)
  ELSE ListCandidates(files, 1, FALSE)

\* C15 as the spec states it: in every input shape, when the primary scan
\* selects no message candidate, every file named exactly messages.json is a
\* message candidate and its channel path is its parent directory.
C15_FallbackInEveryShape ==
  (Classified /\ PrimaryCandidates = <<>>) =>
    \A i \in 1..Len(files) :
      LET parts == Segments(NormPath(files[i].path))
      IN (Len(parts) >= 2 /\ parts[Len(parts)] = "messages.json") =>
           \E k \in 1..Len(messageFiles) :
             /\ messageFiles[k].fi = i
             /\ messageFiles[k].channelPath = ParentPath(parts)

\* the positions of the special files of the parse: the file taken as the
\* global index and the files read as account info
SpecialFiles ==
  LET zip == mode = "zip"
      accounts == AccountCandidates(files, zip, 1)
  IN {i \in 1..Len(files) : i = FindIndexFile(files, zip, 1)}
     \cup {accounts[k] : k \in 1..Len(accounts)}

\* C16 as the spec states it: the three groups are disjoint, so no special
\* file is a metadata candidate or a message candidate.
C16_SpecialFilesKeptApart ==
  Classified =>
    /\ \A k \in 1..Len(metaFiles) : metaFiles[k].fi \notin SpecialFiles
    /\ \A k \in 1..Len(messageFiles) : messageFiles[k].fi \notin SpecialFiles

\* a metadata object declares a name for its channel: one of the keys that
\* normalizeChannelMeta reads a name from holds a value
DeclaresName(data) ==
  LET fr == FirstRecipient(data)
  IN \/ \E key \in {"Channel Name", "channel_name", "ChannelName",
                    "Name", "name", "display_name"} : ~Nullish(Get(data, key))
     \/ /\ Truthy(fr)
        /\ \E key \in {"username", "name", "global_name"} :
             ~Nullish(Get(fr, key))

\* no source of the parse declares a channel name: no global index is
\* present and no metadata file declares one
NoNameDeclared ==
  /\ FindIndexFile(files, mode = "zip", 1) = 0
  /\ \A k \in 1..Len(metaFiles) :
       LET data == files[metaFiles[k].fi].content
       IN data.t = "obj" => ~DeclaresName(data)

\* C17 as the spec states it: when no source declares a channel name, a
\* message of a guild channel has the bare channel ID as its channelName.
C17_GuildMessageFallsBackToId ==
  NoNameDeclared =>
    \A k \in 1..Len(result.messages) :
      LET m == result.messages[k]
      IN Truthy(m.guildId) => m.channelName = m.channelId

\* isChannelMeta accepts the object for a channel-ID key that holds a value
AcceptedByChannelId(data) ==
  /\ isChannelMeta(data)
  /\ \E key \in {"Channel ID", "channel_id", "Channel Id", "channelId"} :
       HasKey(data, key) /\ ~Nullish(Get(data, key))

\* C18 as the spec states it: for every metadata candidate that is an
\* object, isChannelMeta accepts it for a channel-ID key holding a value
\* exactly when normalizeChannelMeta resolves a channelId from it.
C18_AliasSetsAgree ==
  Classified =>
    \A k \in 1..Len(metaFiles) :
      LET data == files[metaFiles[k].fi].content
      IN (data.t = "obj" /\ ~normalizeChannelMetaThrows(data)) =>
           (AcceptedByChannelId(data)
              <=> ~Nullish(normalizeChannelMeta(data).channelId))

\* the position of the first element of seq from i on that equals x, 0 when
\* there is none
RECURSIVE FirstAt(_, _, _)
FirstAt(seq, x, i) ==
  IF i > Len(seq) THEN 0
  ELSE IF seq[i] = x THEN i
  ELSE FirstAt(seq, x, i + 1)

\* the word and emoji keys of the messages from i on, in the order in which
\* the pass over the messages meets them
RECURSIVE KeysMet(_, _)
KeysMet(msgs, i) ==
  IF i > Len(msgs) THEN <<>>
  ELSE CountedWords(msgs[i].contents) \o CountedEmojis(msgs[i].contents)
         \o KeysMet(msgs, i + 1)

\* rows that tie on count stand in the order in which their keys were first
\* met
TiesInOrderMet(keys, counts, met) ==
  \A i, j \in 1..Len(keys) :
    (i < j /\ counts[i] = counts[j]) =>
      FirstAt(met, keys[i], 1) < FirstAt(met, keys[j], 1)

\* some two rows tie on count
SomeTie(rows) ==
  \E i, j \in 1..Len(rows) : i < j /\ rows[i].count = rows[j].count

\* C19: the Summary is fixed by the input alone, ties included: in byChannel,
\* byGuild, topWords and topEmojis the rows stand by descending count, and
\* rows of equal count stand in the order in which the messages of the input
\* first mention their channel, guild, word or emoji.
C19_TiesInInputOrder ==
  Returned =>
    LET s == out.stats
        msgs == out.messages
        met == KeysMet(msgs, 1)
        Counts(rows) == [i \in 1..Len(rows) |-> rows[i].count]
        Keys(rows) == [i \in 1..Len(rows) |-> rows[i].key]
        Descending(rows) ==
          \A i \in 1..(Len(rows) - 1) : rows[i].count >= rows[i + 1].count
    IN /\ Descending(s.byChannel) /\ Descending(s.byGuild)
       /\ Descending(s.topWords) /\ Descending(s.topEmojis)
       /\ TiesInOrderMet([i \in 1..Len(s.byChannel) |-> s.byChannel[i].channelId],
                         Counts(s.byChannel),
                         [k \in 1..Len(msgs) |-> ChannelKey(msgs[k])])
       /\ TiesInOrderMet([i \in 1..Len(s.byGuild) |-> s.byGuild[i].guildId],
                         Counts(s.byGuild),
                         [k \in 1..Len(msgs) |-> msgs[k].guildId])
       /\ TiesInOrderMet(Keys(s.topWords), Counts(s.topWords), met)
       /\ TiesInOrderMet(Keys(s.topEmojis), Counts(s.topEmojis), met)

\* C19 witness: a Summary was returned in which channels, guilds, words and
\* emojis each have rows that tie on count
C19_Witness ==
  /\ Returned
  /\ SomeTie(out.stats.byChannel) /\ SomeTie(out.stats.byGuild)
  /\ SomeTie(out.stats.topWords) /\ SomeTie(out.stats.topEmojis)

\* how many of the tokens from i on are the word w
RECURSIVE TimesIn(_, _, _)
TimesIn(tokens, w, i) ==
  IF i > Len(tokens) THEN 0
  ELSE (IF tokens[i] = w THEN 1 ELSE 0) + TimesIn(tokens, w, i + 1)

\* the occurrences of the token w in the messages from i on
RECURSIVE Occurrences(_, _, _)
Occurrences(w, msgs, i) ==
  IF i > Len(msgs) THEN 0
  ELSE TimesIn(tokenize(msgs[i].contents), w, 1) + Occurrences(w, msgs, i + 1)

\* table lists no stopword, gives every word it lists the number of its
\* occurrences in msgs, and lists every token of msgs that is neither a
\* stopword nor shaped like an emoji
WordsCounted(table, msgs) ==
  /\ \A k \in 1..Len(table) :
       /\ table[k].key \notin STOPWORDS
       /\ table[k].count = Occurrences(table[k].key, msgs, 1)
  /\ \A i \in 1..Len(msgs) :
       LET tokens == tokenize(msgs[i].contents)
       IN \A t \in 1..Len(tokens) :
            (tokens[t] \notin STOPWORDS /\ ~IsEmojiShaped(tokens[t])) =>
              \E k \in 1..Len(table) : table[k].key = tokens[t]

\* C20: no stopword is listed in stats.topWords or in the topWords of a
\* byChannel row, and each listed word has as count the number of its token
\* occurrences in the counted messages: all kept messages for
\* stats.topWords, the messages of the row for the row's topWords.
C20_StopwordsDroppedWordsCounted ==
  Returned =>
    /\ WordsCounted(out.stats.topWords, out.messages)
    /\ \A r \in 1..Len(Rows) : WordsCounted(Rows[r].topWords, Rows[r].messages)

\* C20 witness: a Summary was returned for messages that hold the stopword
\* "the", and a word that occurs in two messages is listed with count 2
C20_Witness ==
  /\ Returned
  /\ Occurrences("the", out.messages, 1) >= 1
  /\ \E k \in 1..Len(out.stats.topWords) :
       /\ out.stats.topWords[k].count = 2
       /\ \E i, j \in 1..Len(out.messages) :
            /\ i # j
            /\ TimesIn(tokenize(out.messages[i].contents),
                       out.stats.topWords[k].key, 1) = 1
            /\ TimesIn(tokenize(out.messages[j].contents),
                       out.stats.topWords[k].key, 1) = 1

\* list is in non-increasing order of count
NonIncreasing(list) ==
  \A i \in 1..(Len(list) - 1) : list[i].count >= list[i + 1].count

\* no key met in the messages that has the shape of the list's entries and
\* is left out of the list was met more often than an entry of the list
\* was counted
NoneLeftOutHigher(list, met, emoji) ==
  \A i \in 1..Len(met) :
    (IsEmojiShaped(met[i]) = emoji
       /\ \A k \in 1..Len(list) : list[k].key # met[i]) =>
      \A k \in 1..Len(list) :
        Cardinality({j \in 1..Len(met) : met[j] = met[i]}) <= list[k].count

\* C21: topWords has at most 100 entries, none emoji-shaped; topEmojis has
\* at most 24 entries, all emoji-shaped; both are in non-increasing order of
\* count; and no key left out of a list was counted more often than an
\* entry of its shape that the list keeps.
C21_TopListsCapped ==
  Returned =>
    LET words == out.stats.topWords
        emojis == out.stats.topEmojis
        met == KeysMet(out.messages, 1)
    IN /\ Len(words) <= 100
       /\ \A k \in 1..Len(words) : ~IsEmojiShaped(words[k].key)
       /\ Len(emojis) <= 24
       /\ \A k \in 1..Len(emojis) : IsEmojiShaped(emojis[k].key)
       /\ NonIncreasing(words) /\ NonIncreasing(emojis)
       /\ NoneLeftOutHigher(words, met, FALSE)
       /\ NoneLeftOutHigher(emojis, met, TRUE)

\* C21 witness: a Summary whose topWords is full at 100 and whose topEmojis
\* is full at 24, the word and the emoji met last being kept at the head of
\* their lists while a word and an emoji met earlier are left out
C21_Witness ==
  /\ Returned
  /\ Len(out.stats.topWords) = 100 /\ Len(out.stats.topEmojis) = 24
  /\ out.stats.topWords[1].key = "w101"
  /\ out.stats.topEmojis[1].key = ":e25:"
  /\ \A k \in 1..100 : out.stats.topWords[k].key # "w100"
  /\ \A k \in 1..24 : out.stats.topEmojis[k].key # ":e24:"

\* a date key YYYY-MM-DD read as the number YYYYMMDD
DateNumber(key) ==
  StrToNat(SubSeq(key, 1, 4)) * 10000
    + StrToNat(SubSeq(key, 6, 7)) * 100 + StrToNat(SubSeq(key, 9, 10))

\* C22: in every returned Summary byChannel and byGuild are in
\* non-increasing order of count, byDay is in increasing order of its date
\* key, and byHour and byDayOfWeek list exactly the hours 0..23 and the days
\* 0..6 in increasing order, also when no message was kept.
C22_TablesSorted ==
  Returned =>
    LET s == out.stats
    IN /\ NonIncreasing(s.byChannel) /\ NonIncreasing(s.byGuild)
       /\ \A i \in 1..(Len(s.byDay) - 1) :
            DateNumber(s.byDay[i].date) < DateNumber(s.byDay[i + 1].date)
       /\ Len(s.byHour) = 24
       /\ \A i \in 1..Len(s.byHour) : s.byHour[i].hour = i - 1
       /\ Len(s.byDayOfWeek) = 7
       /\ \A i \in 1..Len(s.byDayOfWeek) : s.byDayOfWeek[i].day = i - 1
       /\ (Len(out.messages) = 0 =>
             /\ \A i \in 1..24 : s.byHour[i].count = 0
             /\ \A i \in 1..7 : s.byDayOfWeek[i].count = 0)

\* C22 witness: a Summary with two channel rows of different counts and with
\* several dates, the first kept message not falling on the earliest date
C22_Witness ==
  /\ Returned
  /\ Len(out.stats.byChannel) >= 2
  /\ out.stats.byChannel[1].count > out.stats.byChannel[2].count
  /\ Len(out.stats.byDay) >= 2
  /\ LocalDateOf(out.messages[1]) # out.stats.byDay[1].date

\* the shape of an ID as the spec states it: a string that, trimmed, is an
\* optional c or ~ followed by 15 digits or more and nothing else, or is
\* longer than 16 characters and all digits
IdShapedAsStated(v) ==
  /\ v.t = "str"
  /\ LET s == Trim(v.s)
         digitsFrom(i) ==
           /\ Len(s) - i + 1 >= 15
           /\ \A k \in i..Len(s) : CharAt(s, k) \in {"0", "1", "2", "3", "4",
                                                     "5", "6", "7", "8", "9"}
     IN \/ digitsFrom(1)
        \/ Len(s) >= 1 /\ CharAt(s, 1) \in {"c", "~"} /\ digitsFrom(2)
        \/ Len(s) > 16 /\ digitsFrom(1)

\* the name the one metadata file of the export declares
DeclaredName == Get(files[1].content, "Name")

\* C23: looksLikeId is true exactly of the values of the stated shape.  It
\* decides whether a DM channel's metadata name is registered under the
\* channel ID and whether the channel's messages carry it, so once the
\* metadata was read the name is registered exactly when it is a value
\* without the shape, and in the returned Summary the row's name is null
\* exactly when the declared name, if the metadata was read, is a string of
\* the shape.
C23_IdShapeAsStated ==
  /\ \A v \in IdNames : looksLikeId(v) <=> IdShapedAsStated(v)
  /\ looksLikeId(Str("123456789012345")) /\ looksLikeId(Str("c123456789012345"))
  /\ ~looksLikeId(Str("general")) /\ ~looksLikeId(Str("12345678901234"))
  /\ ~looksLikeId(Null) /\ ~looksLikeId(Num(42))
  /\ \A k \in 1..Len(result.channels) :
       LET meta == result.channels[k]
       IN (DeclaredName = meta.channelName /\ ~Nullish(DeclaredName)) =>
            ((Lookup(result.channelIdToName, "42") = DeclaredName)
               <=> ~IdShapedAsStated(DeclaredName))
  /\ (Returned /\ Len(Rows) = 1 /\ Len(result.channels) = 1
        /\ ~Nullish(DeclaredName)) =>
       /\ IdShapedAsStated(DeclaredName) => Rows[1].channelName = Null
       /\ ~IdShapedAsStated(DeclaredName) => Rows[1].channelName = DeclaredName

\* C23 witness: a Summary was returned for a channel whose declared name is
\* the ID shape padded with blanks, and the row's name is null
C23_Witness ==
  /\ Returned /\ Len(Rows) = 1 /\ Len(result.channels) = 1
  /\ DeclaredName = Str(" 123456789012345 ")
  /\ Rows[1].channelName = Null

\* the raw messages of the files of the parse that are objects
RawMessages ==
  UNION {{files[i].content.a[j] : j \in {j \in 1..Len(files[i].content.a) :
                                           files[i].content.a[j].t = "obj"}} :
         i \in {i \in 1..Len(files) : files[i].content.t = "arr"}}

\* the raw timestamp value of a raw message
RawTimestamp(raw) ==
  Coalesce(Coalesce(Get(raw, "Timestamp"), Get(raw, "timestamp")),
           Get(raw, "date"))

\* the Date a raw timestamp value denotes, the one new Date makes of it; a
\* missing value and one new Date throws on denote none
RawDate(ts) ==
  IF Nullish(ts) \/ NewDateThrows(ts) THEN NaNDate ELSE NewDate(ts, host)

\* C24 as the spec states it: every stored message whose raw timestamp
\* denotes a valid instant t stores the instant t minus 5 hours, and every
\* other stored message stores null.
C24_ValidTimestampMinusFiveHours ==
  \A k \in 1..Len(result.messages) :
    \A raw \in RawMessages :
      Get(raw, "ID") = result.messages[k].id =>
        LET t == RawDate(RawTimestamp(raw))
        IN IF t.valid
           THEN result.messages[k].timestamp
                  = TimeClip(t.day, t.ms - 5 * 60 * 60 * 1000)
           ELSE result.messages[k].timestamp = Null

\* the occurrences of the emoji key e in the contents of the messages from
\* i on
RECURSIVE EmojiOccurrences(_, _, _)
EmojiOccurrences(e, msgs, i) ==
  IF i > Len(msgs) THEN 0
  ELSE TimesIn(CountedEmojis(msgs[i].contents), e, 1)
         + EmojiOccurrences(e, msgs, i + 1)

\* C25 as the spec states it: the count of every entry of stats.topEmojis is
\* the number of occurrences of that emoji in the contents of the kept
\* messages, one per occurrence.
C25_OnePerEmojiOccurrence ==
  Returned =>
    \A k \in 1..Len(out.stats.topEmojis) :
      out.stats.topEmojis[k].count =
        EmojiOccurrences(out.stats.topEmojis[k].key, out.messages, 1)

\* C26 as the spec states it: in every byChannel row firstMessageAt is the
\* earliest and lastMessageAt the latest timestamp of the row's retained
\* messages, and both lie between stats.firstMessageAt and
\* stats.lastMessageAt.
C26_RowFirstAndLast ==
  Returned =>
    \A r \in 1..Len(Rows) :
      LET row == Rows[r]
      IN /\ \A k \in 1..Len(row.messages) :
              /\ TimeLeq(row.firstMessageAt, row.messages[k].timestamp)
              /\ TimeLeq(row.messages[k].timestamp, row.lastMessageAt)
         /\ TimeLeq(out.stats.firstMessageAt, row.firstMessageAt)
         /\ TimeLeq(row.firstMessageAt, row.lastMessageAt)
         /\ TimeLeq(row.lastMessageAt, out.stats.lastMessageAt)

\* C27: in a returned Summary the byChannel rows partition the counted
\* messages: no two rows have the same channelId key, a row retains exactly
\* the counted messages whose channel ID (or "dm" when it has none) is the
\* row's key, in their order, a row's count is the length of that list, and
\* the counts sum to stats.totalMessages.
C27_RowsPartitionMessages ==
  Returned =>
    /\ \A i, j \in 1..Len(Rows) : Rows[i].channelId = Rows[j].channelId => i = j
    /\ \A r \in 1..Len(Rows) :
         /\ Rows[r].count = Len(Rows[r].messages)
         /\ Rows[r].messages =
              SelectSeq(out.messages,
                        LAMBDA m : Coalesce(m.channelId, Str("dm"))
                                     = Rows[r].channelId)
    /\ \A k \in 1..Len(out.messages) :
         \E r \in 1..Len(Rows) :
           Rows[r].channelId = Coalesce(out.messages[k].channelId, Str("dm"))
    /\ SumCounts(Rows) = out.stats.totalMessages
    /\ out.stats.totalMessages = Len(out.messages)

\* C27 witness: a Summary with several rows, one of them with several
\* messages
C27_Witness ==
  /\ Returned
  /\ Len(Rows) >= 2
  /\ \E r \in 1..Len(Rows) : Rows[r].count >= 2
  /\ out.stats.totalMessages >= 3

\* the raw message raw was ingested: the corpus of the parse holds a
\* message with its ID
Ingested(raw) ==
  \E k \in 1..Len(result.messages) : result.messages[k].id = Get(raw, "ID")

\* C28 as the spec states it: a transcript is ingested whole or not at all,
\* so when a Summary is returned the raw messages of one file are either all
\* in the corpus or all missing from it.
C28_TranscriptAllOrNothing ==
  Returned =>
    \A i \in 1..Len(files) :
      files[i].content.t = "arr" =>
        LET raws == {files[i].content.a[j] :
                       j \in {j \in 1..Len(files[i].content.a) :
                                files[i].content.a[j].t = "obj"}}
        IN (\A raw \in raws : Ingested(raw)) \/ (\A raw \in raws : ~Ingested(raw))

\* the raw messages of file i that are objects
RawsOf(i) ==
  IF files[i].content.t # "arr" THEN {}
  ELSE {files[i].content.a[j] :
          j \in {j \in 1..Len(files[i].content.a) :
                   files[i].content.a[j].t = "obj"}}

\* no two files of the parse hold a raw message of the same ID
IdsTellFiles ==
  \A i, j \in 1..Len(files) :
    i # j => \A a \in RawsOf(i), b \in RawsOf(j) : Get(a, "ID") # Get(b, "ID")

\* C29 as the spec states it: the messages of a channel path for which no
\* metadata file was found are resolved against no metadata at all: they
\* carry the last segment of their path as channelId and no guildId, name,
\* guild name or avatar.
C29_NoForeignMetadata ==
  IdsTellFiles =>
    \A c \in 1..Len(messageFiles) :
      (\A k \in 1..Len(metaFiles) :
         metaFiles[k].channelPath # messageFiles[c].channelPath) =>
        \A raw \in RawsOf(messageFiles[c].fi) :
          \A k \in 1..Len(result.messages) :
            LET m == result.messages[k]
            IN m.id = Get(raw, "ID") =>
                 /\ m.channelId = Str(LastSegment(messageFiles[c].channelPath))
                 /\ Nullish(m.guildId) /\ Nullish(m.guildName)
                 /\ Nullish(m.channelName) /\ Nullish(m.avatarUrl)

\* the paths of the files in the tree of directory d, with those of its
\* subdirectories (the root holds the only subdirectory)
TreePaths(d) ==
  LET Own(x) ==
        UNION {{PairPath(drop.tree[x][b][e]) :
                  e \in {e \in 1..Len(drop.tree[x][b]) :
                           drop.tree[x][b][e].kind = "file"}} :
               b \in 1..Len(drop.tree[x])}
      HasSub == \E b \in 1..Len(drop.tree[d]) :
                  \E e \in 1..Len(drop.tree[d][b]) : drop.tree[d][b][e].kind = "dir"
  IN Own(d) \cup (IF d = 1 /\ HasSub THEN Own(2) ELSE {})

\* C30 as the spec states it: when the call for the dropped directory
\* resolves, its result holds every file of the tree exactly once.
C30_EveryFileOnce ==
  (drop.dirs # <<>> /\ drop.dirs[1].st = "resolved") =>
    LET pairs == drop.dirs[1].out
    IN /\ \A p \in TreePaths(1) : \E k \in 1..Len(pairs) : pairs[k] = p
       /\ \A i, j \in 1..Len(pairs) : pairs[i] = pairs[j] => i = j

====
